---- MODULE Spec2Model ----
(***************************************************************************)
(* TextIndex: the index-mark scanner (TextIndex.create_index) and the      *)
(* entry tree (TextIndex.entry_at_path, TextIndexEntry) of                 *)
(* src/src/textindex/textindex.py.                                         *)
(*                                                                         *)
(* Python strings are sequences of one-character strings.  None and the    *)
(* empty string, which the code only ever tests for truthiness, are both   *)
(* the empty sequence.  The entry tree is an arena: a sequence of entry    *)
(* records in creation order, an entry's parent being an index into it     *)
(* (0 for no parent), so that the children list of an entry, which the     *)
(* code only appends to, is the entries naming it as parent, in arena      *)
(* order.                                                                  *)
(***************************************************************************)
EXTENDS Integers, Sequences, FiniteSets, TLC

VARIABLES
    entries,        \* the entry tree (self.entries and every entry's .entries)
    next_id,        \* TextIndexEntry._next_id, the class-wide entry id counter
    depth,          \* self.depth, the greatest depth of an entry created
    aliases,        \* self.aliases: sequence of [name, path], one per name
    enabled,        \* create_index: local `enabled`
    entry_number,   \* create_index: local `entry_number`
    out,            \* create_index: local `indexed_doc`, as a sequence of pieces
    doc,            \* the directives matched so far (the document read so far)
    ids,            \* ids[i]: the id taken by directive i, 0 when it took none
    pc,             \* "scan", "done" (create_index returned) or "raised"
    calls           \* the direct calls of entry_at_path made, with results

vars == <<entries, next_id, depth, aliases, enabled, entry_number, out, doc,
          ids, pc, calls>>

----------------------------------------------------------------------------
(* Bounds *)

MaxMarks == 4
MaxCalls == 3
MaxNumber == 125
MaxPos == 4
MaxMatches == 2
MaxExtraWords == 2
MaxInstances == 2
MaxRules == 2
MaxHeadings == 3

----------------------------------------------------------------------------
(* Strings *)

\* The directive characters (class attributes of TextIndex).
also_marker     == "+"
emphasis_marker == "!"
end_marker      == "/"
inbound_marker  == "@"
path_delimiter  == ">"
refs_delimiter  == ";"
disable_mark    == "-"
enable_mark     == "+"
alias_prefix    == "#"

Whitespace == {" "}
Quotes     == {"'", "\""}

\* The ASCII letters, and str.lower() on one character.
AsciiUpper ==
    <<"A", "B", "C", "D", "E", "F", "G", "H", "I", "J", "K", "L", "M",
      "N", "O", "P", "Q", "R", "S", "T", "U", "V", "W", "X", "Y", "Z">>
AsciiLower ==
    <<"a", "b", "c", "d", "e", "f", "g", "h", "i", "j", "k", "l", "m",
      "n", "o", "p", "q", "r", "s", "t", "u", "v", "w", "x", "y", "z">>
Lower(c) ==
    IF \E i \in 1..Len(AsciiUpper) : AsciiUpper[i] = c
    THEN AsciiLower[CHOOSE i \in 1..Len(AsciiUpper) : AsciiUpper[i] = c]
    ELSE c

UpperLetters == {AsciiUpper[i] : i \in 1..Len(AsciiUpper)}
LowerLetters == {AsciiLower[i] : i \in 1..Len(AsciiLower)}
AsciiDigits == {"0", "1", "2", "3", "4", "5", "6", "7", "8", "9"}

\* [a-zA-Z0-9\-_]
AliasNameChars ==
    UpperLetters \cup LowerLetters \cup AsciiDigits \cup {"-", "_"}

SubStr(s, i, j) == IF i > j THEN <<>> ELSE SubSeq(s, i, j)

\* s[:n] and s[n:] with Python's 0-based offsets.
Upto(s, n) == SubStr(s, 1, n)
From(s, n) == SubStr(s, n + 1, Len(s))

\* The number of leading (trailing) characters of s that are in set cs.
RECURSIVE LeadIn(_, _)
LeadIn(s, cs) ==
    IF s = <<>> \/ Head(s) \notin cs THEN 0 ELSE 1 + LeadIn(Tail(s), cs)

RECURSIVE TrailIn(_, _)
TrailIn(s, cs) ==
    IF s = <<>> \/ s[Len(s)] \notin cs THEN 0
    ELSE 1 + TrailIn(Upto(s, Len(s) - 1), cs)

\* str.strip(chars)
StripChars(s, cs) ==
    LET a == LeadIn(s, cs)
    IN  IF a = Len(s) THEN <<>> ELSE SubStr(s, a + 1, Len(s) - TrailIn(s, cs))

\* str.strip()
Strip(s) == StripChars(s, Whitespace)

\* str.endswith / str.startswith for a one-character marker
EndsWith(s, c)   == s # <<>> /\ s[Len(s)] = c
StartsWith(s, c) == s # <<>> /\ s[1] = c

\* The position of the first occurrence of a character of cs in s, 0 if none.
FirstIn(s, cs) ==
    LET hits == {i \in 1..Len(s) : s[i] \in cs}
    IN  IF hits = {} THEN 0 ELSE CHOOSE i \in hits : \A j \in hits : i <= j

\* str.split(c): the pieces between the occurrences of c, at least one piece.
RECURSIVE Split(_, _)
Split(s, c) ==
    LET n == FirstIn(s, {c})
    IN  IF n = 0 THEN <<s>>
        ELSE <<Upto(s, n - 1)>> \o Split(From(s, n), c)

\* c.join(f'"{elem}"' for elem in path)
RECURSIVE JoinQuoted(_)
JoinQuoted(path) ==
    IF path = <<>> THEN <<>>
    ELSE <<"\"">> \o Head(path) \o <<"\"">>
         \o (IF Len(path) > 1 THEN <<path_delimiter>> ELSE <<>>)
         \o JoinQuoted(Tail(path))

----------------------------------------------------------------------------
(* The entry tree *)

\* A locator without the key "end-id" has end_id = 0; ids start at 1.
Locator(start, suffix, emph) ==
    [start_id |-> start, suffix |-> suffix, locator_emphasis |-> emph,
     end_id |-> 0, end_suffix |-> <<>>]

\* TextIndexEntry.__init__ taking the label as the sort key.
TextIndexEntryKeyed(label, parent, id) ==
    [entry_id |-> id, label |-> label, parent |-> parent,
     references |-> <<>>, cross_references |-> <<>>, sort_key |-> label]

\* TextIndexEntry.__init__
TextIndexEntry(label, parent, id) ==
    [entry_id |-> id, label |-> label, parent |-> parent,
     references |-> <<>>, cross_references |-> <<>>, sort_key |-> <<>>]

\* TextIndexEntry.depth: the number of ancestors.
RECURSIVE EntryDepth(_, _)
EntryDepth(ents, e) ==
    IF ents[e].parent = 0 THEN 0 ELSE 1 + EntryDepth(ents, ents[e].parent)

\* TextIndexEntry.path_list
RECURSIVE PathList(_, _)
PathList(ents, e) ==
    IF ents[e].parent = 0 THEN <<ents[e].label>>
    ELSE Append(PathList(ents, ents[e].parent), ents[e].label)

Children(ents, parent) == {i \in 1..Len(ents) : ents[i].parent = parent}

Minimum(S) == CHOOSE x \in S : \A y \in S : x <= y

LabelsEqual(a, b) == a = b

\* FindChild looking at the latest entry of the list only.
FindChildLatest(ents, parent, component) ==
    LET kids == Children(ents, parent)
        hits == {i \in kids : /\ \A j \in kids : j <= i
                              /\ LabelsEqual(ents[i].label, component)}
    IN  IF hits = {} THEN 0 ELSE Minimum(hits)

\* entry_at_path's inner loop: the first entry of the list whose label is
\* the component, 0 when there is none.
FindChild(ents, parent, component) ==
    LET hits == {i \in Children(ents, parent) :
                    LabelsEqual(ents[i].label, component)}
    IN  IF hits = {} THEN 0 ELSE Minimum(hits)

\* entry_at_path's loop over path_list + [label], from component i on.
\* t holds the tree and the counters, cur the entry reached (0: none).
RECURSIVE WalkPath(_, _, _, _, _, _)
WalkPath(t, comps, i, cur, created, create) ==
    IF i > Len(comps) THEN [t |-> t, entry |-> cur, created |-> created]
    ELSE LET found == FindChild(t.entries, cur, comps[i])
         IN  IF found # 0
             THEN WalkPath(t, comps, i + 1, found, created, create)
             ELSE IF ~create
             THEN [t |-> t, entry |-> 0, created |-> created]
             ELSE LET new == TextIndexEntry(comps[i], cur, t.next_id)
                      ents == Append(t.entries, new)
                      d == EntryDepth(ents, Len(ents))
                      t2 == [entries |-> ents, next_id |-> t.next_id + 1,
                             depth |-> IF d > t.depth THEN d ELSE t.depth]
                  IN  WalkPath(t2, comps, i + 1, Len(ents), TRUE, create)

\* entry_at_path returning `entry` for `entry and not created`.
entry_at_path_any(t, label, path_list, create) ==
    LET r == WalkPath(t, Append(path_list, label), 1, 0, FALSE, create)
    IN  [t |-> r.t, entry |-> r.entry, existed |-> r.entry # 0]

\* TextIndex.entry_at_path(label, path_list, create): the tree after the
\* call, the entry returned (0 for None) and `entry and not created`.
entry_at_path(t, label, path_list, create) ==
    LET r == WalkPath(t, Append(path_list, label), 1, 0, FALSE, create)
    IN  [t |-> r.t, entry |-> r.entry,
         existed |-> (r.entry # 0 /\ ~r.created)]

\* add_cross_reference without the duplicate check.
add_cross_reference_always(ent, ref_type, path) ==
    [ent EXCEPT !.cross_references =
         Append(@, [ref_type |-> ref_type, path |-> path])]

\* TextIndexEntry.add_cross_reference
add_cross_reference(ent, ref_type, path) ==
    IF \E i \in 1..Len(ent.cross_references) :
            /\ ent.cross_references[i].ref_type = ref_type
            /\ ent.cross_references[i].path = path
    THEN ent
    ELSE [ent EXCEPT !.cross_references =
              Append(@, [ref_type |-> ref_type, path |-> path])]

\* TextIndexEntry.add_reference
add_reference(ent, start_id, suffix, emph) ==
    [ent EXCEPT !.references = Append(@, Locator(start_id, suffix, emph))]

\* update_latest_ref_end given the id before the one just prepared.
update_latest_ref_end_prev(ent, end_id, end_suffix) ==
    LET n == Len(ent.references)
    IN  [ent EXCEPT !.references[n].end_id = end_id - 1,
                    !.references[n].end_suffix =
                        IF end_suffix # <<>> THEN end_suffix ELSE @]

\* TextIndexEntry.update_latest_ref_end (called with references non-empty)
update_latest_ref_end(ent, end_id, end_suffix) ==
    LET n == Len(ent.references)
    IN  [ent EXCEPT !.references[n].end_id = end_id,
                    !.references[n].end_suffix =
                        IF end_suffix # <<>> THEN end_suffix ELSE @]

----------------------------------------------------------------------------
(* Aliases and wildcards *)

\* emphasis(text, remove=True): re.sub(r"_([^_]+?)_", r"\1", text)
RECURSIVE RemoveEmphasis(_)
RemoveEmphasis(s) ==
    IF s = <<>> THEN <<>>
    ELSE LET j == FirstIn(Tail(s), {"_"})   \* the next "_" is s[j + 1]
         IN  IF Head(s) = "_" /\ j > 1
             THEN SubStr(s, 2, j) \o RemoveEmphasis(From(s, j + 1))
             ELSE <<Head(s)>> \o RemoveEmphasis(Tail(s))

\* str.lower()
LowerStr(s) == [i \in 1..Len(s) |-> Lower(s[i])]

\* str.replace(old, new) for the one-character old string c
RECURSIVE ReplaceChar(_, _, _)
ReplaceChar(s, c, new) ==
    IF s = <<>> THEN <<>>
    ELSE (IF Head(s) = c THEN new ELSE <<Head(s)>>)
         \o ReplaceChar(Tail(s), c, new)

\* str.replace("**", new)
RECURSIVE ReplaceStars(_, _)
ReplaceStars(s, new) ==
    IF s = <<>> THEN <<>>
    ELSE IF Len(s) >= 2 /\ s[1] = "*" /\ s[2] = "*"
         THEN new \o ReplaceStars(From(s, 2), new)
         ELSE <<Head(s)>> \o ReplaceStars(Tail(s), new)

\* self.aliases is a function from the names defined to their paths.
\* TextIndex.define_alias
define_alias(als, name, path) ==
    [n \in DOMAIN als \cup {name} |-> IF n = name THEN path ELSE als[n]]

\* re.sub(_alias_token_pattern, self._alias_replace, text): every `#name`
\* not preceded by `#`, name in the table, becomes the quoted joined path.
\* prev is the character in front of s in the whole text.
RECURSIVE AliasSub(_, _, _)
AliasSub(s, prev, als) ==
    IF s = <<>> THEN <<>>
    ELSE LET n == LeadIn(Tail(s), AliasNameChars)
             name == SubStr(s, 2, n + 1)
         IN  IF Head(s) = alias_prefix /\ prev # alias_prefix /\ n > 0
             THEN (IF name \in DOMAIN als THEN JoinQuoted(als[name])
                   ELSE Upto(s, n + 1))
                  \o AliasSub(From(s, n + 1), s[n + 1], als)
             ELSE <<Head(s)>> \o AliasSub(Tail(s), Head(s), als)

\* AliasReplace leaving every alias reference as it was written.
AliasReplaceNone(text, als) == text

\* `if len(self.aliases) > 0 and len(text) > 0: text = re.sub(...)`
AliasReplace(text, als) ==
    IF DOMAIN als # {} /\ text # <<>> THEN AliasSub(text, "", als) ELSE text

\* re.search(_alias_definition_pattern, component): the 1-based position of
\* the leftmost `#` followed by `#?name` up to the end, 0 when none.
AliasDefStart(comp) ==
    LET IsName(r) == r # <<>> /\ LeadIn(r, AliasNameChars) = Len(r)
        hits == {i \in 1..Len(comp) :
                    /\ comp[i] = alias_prefix
                    /\ \/ IsName(From(comp, i))
                       \/ /\ i < Len(comp)
                          /\ comp[i + 1] = alias_prefix
                          /\ IsName(From(comp, i + 1))}
    IN  IF hits = {} THEN 0 ELSE Minimum(hits)

\* TextIndexEntry.prefix_search / TextIndex.prefix_search: the first entry,
\* in depth-first pre-order, whose label starts with text; 0 when none.
\* todo is the list of entries still to visit, first to last.
SortedSeq(S) ==
    LET RECURSIVE Build(_)
        Build(T) == IF T = {} THEN <<>>
                    ELSE <<Minimum(T)>> \o Build(T \ {Minimum(T)})
    IN  Build(S)

IsPrefix(p, s) == Len(p) <= Len(s) /\ Upto(s, Len(p)) = p

RECURSIVE PrefixWalk(_, _, _)
PrefixWalk(ents, todo, text) ==
    IF todo = <<>> THEN 0
    ELSE IF IsPrefix(text, ents[Head(todo)].label) THEN Head(todo)
    ELSE PrefixWalk(ents,
                    SortedSeq(Children(ents, Head(todo))) \o Tail(todo), text)

\* prefix_search taking the entry created first among those that match.
prefix_search_created(ents, text) ==
    LET hits == {e \in 1..Len(ents) : IsPrefix(text, ents[e].label)}
    IN  IF hits = {} THEN 0 ELSE Minimum(hits)

prefix_search(ents, text) == PrefixWalk(ents, SortedSeq(Children(ents, 0)), text)

\* The finditer of r"\*\^(\-?)" replaced from last to first: each `*^` or
\* `*^-` of text becomes the replacement chosen for it.
RECURSIVE ReplaceSearchWildcards(_, _, _, _)
ReplaceSearchWildcards(s, found, rlabel, rpath) ==
    IF s = <<>> THEN <<>>
    ELSE IF Len(s) >= 2 /\ s[1] = "*" /\ s[2] = "^"
         THEN LET minus == Len(s) >= 3 /\ s[3] = "-"
                  used == IF minus THEN 3 ELSE 2
              IN  (IF ~found THEN <<"*">>
                   ELSE IF minus THEN rlabel ELSE rpath)
                  \o ReplaceSearchWildcards(From(s, used), found, rlabel, rpath)
         ELSE <<Head(s)>>
              \o ReplaceSearchWildcards(Tail(s), found, rlabel, rpath)

HasSearchWildcard(s) ==
    \E i \in 1..(Len(s) - 1) : s[i] = "*" /\ s[i + 1] = "^"

\* TextIndex.process_wildcards(label, text, force_label_only)
process_wildcards(ents, label, text, force_label_only) ==
    IF label = <<>> THEN text
    ELSE LET item == IF HasSearchWildcard(text)
                     THEN prefix_search(ents, label) ELSE 0
             rlabel == IF item = 0 THEN <<>>
                       ELSE <<"\"">> \o ents[item].label \o <<"\"">>
             rpath == IF item = 0 THEN <<>>
                      ELSE IF force_label_only THEN rlabel
                      ELSE JoinQuoted(PathList(ents, item))
             t1 == ReplaceSearchWildcards(text, item # 0, rlabel, rpath)
             t2 == ReplaceStars(t1, LowerStr(RemoveEmphasis(label)))
         IN  ReplaceChar(t2, "*", RemoveEmphasis(label))

----------------------------------------------------------------------------
(* One directive of the document *)

\* A match of _index_directive_pattern: the visible tokens in front of the
\* mark (bracketed `[txt]` or bare), in order, and the text between `{^`
\* and `}`.
Tok(br, txt) == [br |-> br, txt |-> txt]
Mark(toks, body) == [toks |-> toks, body |-> body]

\* directive.group(1), directive.group(2): the text of the last bracketed
\* token and of the last bare token.
LastTok(toks, br) ==
    LET hits == {i \in 1..Len(toks) : toks[i].br = br}
    IN  IF hits = {} THEN <<>>
        ELSE toks[CHOOSE i \in hits : \A j \in hits : j <= i].txt

Group1(m) == LastTok(m.toks, TRUE)
Group2(m) == LastTok(m.toks, FALSE)

\* `label = group(1) if group(1) else group(2)`, also span_contents
SpanContents(m) == IF Group1(m) # <<>> THEN Group1(m) ELSE Group2(m)

\* SkipDirective without `not enabled`.
SkipTogglesOnly(toggling, en, toggled) == toggled \/ toggling

\* `if toggling_directive and (enabled or status_toggled)`: the mark is cut
\* out of indexed_doc.
ToggleRemoved(toggling, en, toggled) == toggling /\ (en \/ toggled)

\* `if not enabled or status_toggled or toggling_directive: continue`
SkipDirective(toggling, en, toggled) == ~en \/ toggled \/ toggling

\* Prologue testing `!` whether or not the body ends with `/`, and taking
\* off both markers.
PrologueBoth(m, en) ==
    LET params == Strip(m.body)
        toggling == params = <<enable_mark>> \/ params = <<disable_mark>>
        closing == EndsWith(params, end_marker)
        rest == IF closing THEN Upto(params, Len(params) - 1) ELSE params
        emph == EndsWith(rest, emphasis_marker)
        turn_on == ~closing /\ ~emph /\ params = <<enable_mark>> /\ ~en
        turn_off == ~closing /\ ~emph /\ ~turn_on
                    /\ params = <<disable_mark>> /\ en
        en2 == IF turn_on THEN TRUE ELSE IF turn_off THEN FALSE ELSE en
        toggled == turn_on \/ turn_off
    IN  [params |-> IF emph THEN Upto(rest, Len(rest) - 1) ELSE rest,
         closing |-> closing, emphasis |-> emph, enabled |-> en2,
         toggling |-> toggling, status_toggled |-> toggled,
         removed |-> ToggleRemoved(toggling, en2, toggled),
         skip |-> SkipDirective(toggling, en2, toggled)]

\* The trailing marker and the toggles (create_index, "Determine type of
\* directive").
Prologue(m, en) ==
    LET params == Strip(m.body)
        toggling == params = <<enable_mark>> \/ params = <<disable_mark>>
        closing == EndsWith(params, end_marker)
        emph == ~closing /\ EndsWith(params, emphasis_marker)
        turn_on == ~closing /\ ~emph /\ params = <<enable_mark>> /\ ~en
        turn_off == ~closing /\ ~emph /\ ~turn_on
                    /\ params = <<disable_mark>> /\ en
        en2 == IF turn_on THEN TRUE ELSE IF turn_off THEN FALSE ELSE en
        toggled == turn_on \/ turn_off
    IN  [params |-> IF closing \/ emph THEN Upto(params, Len(params) - 1)
                    ELSE params,
         closing |-> closing, emphasis |-> emph, enabled |-> en2,
         toggling |-> toggling, status_toggled |-> toggled,
         removed |-> ToggleRemoved(toggling, en2, toggled),
         skip |-> SkipDirective(toggling, en2, toggled)]

\* A label that is None, stored in an alias path, is only ever read back by
\* _alias_replace, which formats it as the text None.
NoneText == <<"N", "o", "n", "e">>

\* `if alias_definition_match:` — the alias definition met at the end of
\* the path.  start is where `#name` or `##name` begins in the last
\* component (0: none), group1 the text from there on.  outcome is "ok",
\* "alias_only" (the `continue` of an unreferenced alias definition) or
\* "raise" (NameError: alias_label).
AliasDefinition(als, span_contents, rest, start, group1, label1, comps) ==
    LET without_ref == StartsWith(group1, alias_prefix)
        name == From(group1, LeadIn(group1, {alias_prefix}))
        defines == start > 1 \/ span_contents # <<>>
        raises == start = 1 /\ comps = <<>> /\ name \in DOMAIN als
        label2 == IF start = 0 \/ start > 1 THEN label1 ELSE span_contents
    IN  [label |-> label2, comps |-> comps, params |-> rest,
         aliases |-> IF start = 0 \/ raises \/ ~defines THEN als
                     ELSE define_alias(als, name,
                              Append(comps, IF label2 = <<>> THEN NoneText
                                            ELSE label2)),
         outcome |-> IF start = 0 THEN "ok"
                     ELSE IF raises THEN "raise"
                     ELSE IF without_ref THEN "alias_only" ELSE "ok"]

\* The label and its ancestors taken from the unquoted components unq:
\* `label = path_components.pop()` unless the last one is empty or `>`,
\* then a trailing empty component is dropped.
PathLabel(als, span_contents, rest, start, group1, unq) ==
    LET last == unq[Len(unq)]
        takes == last # <<path_delimiter>> /\ last # <<>>
        comps1 == IF takes THEN Upto(unq, Len(unq) - 1) ELSE unq
    IN  AliasDefinition(als, span_contents, rest, start, group1,
                        IF takes THEN last ELSE span_contents,
                        IF comps1 # <<>> /\ comps1[Len(comps1)] = <<>>
                        THEN Upto(comps1, Len(comps1) - 1) ELSE comps1)

\* The components split of the path text: the alias definition is cut off
\* the last one, then each is stripped of quotes.
PathComponents(als, span_contents, rest, split) ==
    LET k == Len(split)
        start == AliasDefStart(split[k])
    IN  PathLabel(als, span_contents, rest, start, From(split[k], start),
                  [i \in 1..k |->
                     StripChars(IF i = k /\ start # 0
                                THEN Upto(split[i], start - 1) ELSE split[i],
                                Quotes)])

\* The label path (create_index, "Determine label path" up to the alias
\* definition): re.match(r"^([^|\[~]+)", params), aliases and wildcards
\* replaced in it, split at `>`.
LabelPath(ents, als, span_contents, params) ==
    LET stop == FirstIn(params, {"|", "[", "~"})
        n == IF stop = 0 THEN Len(params) ELSE stop - 1
    IN  IF n = 0
        THEN [label |-> span_contents, comps |-> <<>>, params |-> params,
              aliases |-> als, outcome |-> "ok"]
        ELSE PathComponents(als, span_contents, From(params, n),
                 Split(process_wildcards(ents, span_contents,
                           AliasReplace(Strip(Upto(params, n)), als), FALSE),
                       path_delimiter))

\* re.search(r"\s*\[([^\]]+)(?<!\\)\]\s*", params): the leftmost `[...]`
\* with something between the brackets, and params with it (and the
\* whitespace around it) cut out.  The documents here hold no backslash.
SuffixPart(params) ==
    LET Close(p) == FirstIn(From(params, p), {"]"})
        hits == {p \in 1..Len(params) : params[p] = "[" /\ Close(p) > 1}
    IN  IF hits = {} THEN [suffix |-> <<>>, params |-> params]
        ELSE LET p == Minimum(hits)
                 q == p + Close(p)
                 a == p - 1 - TrailIn(Upto(params, p - 1), Whitespace)
                 b == q + LeadIn(From(params, q), Whitespace)
             IN  [suffix |-> SubStr(params, p + 1, q - 1),
                  params |-> Upto(params, a) \o From(params, b)]

\* re.search(r"\s*\~(['\"]?)(.+)\1$", params): the leftmost `~` with
\* something after it; the key runs to the end of params, without the
\* quotes when it is quoted.
SortPart(params) ==
    LET p == FirstIn(params, {"~"})
        r == From(params, p)
        quoted == Len(r) >= 3 /\ r[1] \in Quotes /\ r[Len(r)] = r[1]
    IN  IF p = 0 \/ r = <<>> THEN [sort_key |-> <<>>, params |-> params]
        ELSE [sort_key |-> IF quoted THEN SubStr(r, 2, Len(r) - 1) ELSE r,
              params |-> Upto(params,
                              p - 1 - TrailIn(Upto(params, p - 1), Whitespace))]

\* One segment of the cross-reference list, as the loop body reads it.
RefSpec(ref0) ==
    LET ref1 == Strip(ref0)
        inbound == StartsWith(ref1, inbound_marker)
        ref2 == IF inbound THEN Tail(ref1) ELSE ref1
        also == StartsWith(ref2, also_marker)
        ref3 == IF also THEN Tail(ref2) ELSE ref2
        split == Split(ref3, path_delimiter)
    IN  [inbound |-> inbound,
         ref_type |-> IF also THEN "also" ELSE "see",
         path |-> [i \in 1..Len(split) |-> StripChars(split[i], Quotes)]]

\* `if create_ref and ref_type == TextIndex.see and not inbound`
CreateRef(a, r) == a.create_ref /\ (r.ref_type = "also" \/ r.inbound)

\* An inbound segment r: e is what entry_at_path returned for the entry
\* named by r, which receives a cross-reference to this mark's own path;
\* a path of more than one component raises
\* (TypeError: '(Path: ' + source_path_components).
InboundRef(a, r, own_path, e) ==
    [a EXCEPT !.t = [e.t EXCEPT !.entries =
                        IF Len(r.path) > 1 THEN e.t.entries
                        ELSE [e.t.entries EXCEPT ![e.entry] =
                                add_cross_reference(@, r.ref_type,
                                                    own_path)]],
              !.create_ref = CreateRef(a, r),
              !.raised = Len(r.path) > 1]

\* The body of `for ref in refs` for the segment read as r.
RefStep(a, r, own_path) ==
    IF r.inbound
    THEN InboundRef(a, r, own_path,
                    entry_at_path(a.t, r.path[Len(r.path)],
                                  Upto(r.path, Len(r.path) - 1), TRUE))
    ELSE [a EXCEPT !.xrefs = Append(@, [ref_type |-> r.ref_type,
                                        path |-> r.path]),
                   !.create_ref = CreateRef(a, r)]

\* The loop `for ref in refs`, from segment i on.  a holds the tree t, the
\* cross-references collected for this mark's entry, create_ref, and
\* raised.
RECURSIVE RefsLoop(_, _, _, _)
RefsLoop(a, refs, i, own_path) ==
    IF i > Len(refs) \/ a.raised THEN a
    ELSE RefsLoop(RefStep(a, RefSpec(refs[i]), own_path), refs, i + 1,
                  own_path)

\* create_index, "Cross-references": re.match(r"\|(.+)$", params)
CrossRefs(t, als, span_contents, params, own_path) ==
    LET a0 == [t |-> t, xrefs |-> <<>>, create_ref |-> TRUE, raised |-> FALSE]
    IN  IF ~(Len(params) >= 2 /\ params[1] = "|") THEN a0
        ELSE LET s0 == Strip(Tail(params))
                 s1 == AliasReplace(s0, als)
                 s2 == process_wildcards(t.entries, span_contents, s1, FALSE)
             IN  RefsLoop(a0, Split(s2, refs_delimiter), 1, own_path)

\* `for ref in cross_references: entry.add_cross_reference(...)`
RECURSIVE AddCrossReferences(_, _)
AddCrossReferences(ent, xrefs) ==
    IF xrefs = <<>> THEN ent
    ELSE AddCrossReferences(
             add_cross_reference(ent, Head(xrefs).ref_type, Head(xrefs).path),
             Tail(xrefs))

\* The pieces of indexed_doc that directives leave behind: an anchor span
\* `<span id="{index_id_prefix}{id}" class="textindex"></span>`, or the
\* text of the directive itself, left as it was read.
Span(id, m)  == [kind |-> "span", id |-> id, mark |-> m]
Verbatim(m)  == [kind |-> "mark", id |-> 0, mark |-> m]

\* `emphasis(span_contents) if span_contents else ""`: inside create_index
\* the name `emphasis` is the local boolean, so the call raises TypeError
\* whenever span_contents is not empty.
SpanRaises(m) == SpanContents(m) # <<>>

\* SkippedPieces cutting every skipped directive out.
SkippedPiecesNone(removed, m) == <<>>

\* NextNumber without the increment.
NextNumberSame(number) == number

\* What a directive that is skipped leaves in indexed_doc: nothing when it
\* was cut out, else its own text, which nothing replaces.
SkippedPieces(removed, m) == IF removed THEN <<>> ELSE <<Verbatim(m)>>

\* "Prepare next reference id": entry_number += 1
NextNumber(number) == number + 1

\* "Insert into entries tree" and what follows, for a directive with a
\* label, not skipped; n is the id just prepared.
Insert(t, m, pr, label, comps, suffix, sort_key, cr, n) ==
    LET e == entry_at_path(t, label, comps, ~pr.closing)
        ent == e.t.entries[e.entry]
        closed == IF ent.references # <<>>
                  THEN update_latest_ref_end(ent, n, suffix) ELSE ent
        ref == IF cr.create_ref
               THEN add_reference(ent, n, suffix, pr.emphasis) ELSE ent
        keyed == IF sort_key # <<>> THEN [ref EXCEPT !.sort_key = sort_key]
                 ELSE ref
        filled == AddCrossReferences(keyed, cr.xrefs)
    IN  IF e.entry = 0
        THEN [t |-> e.t, pieces |-> <<Verbatim(m)>>, pc |-> "scan"]
        ELSE [t |-> [e.t EXCEPT !.entries[e.entry] =
                        IF pr.closing THEN closed ELSE filled],
              pieces |-> IF SpanRaises(m) THEN <<>> ELSE <<Span(n, m)>>,
              pc |-> IF SpanRaises(m) THEN "raised" ELSE "scan"]

\* What an iteration that changes nothing but the enabled flag leaves.
Same(t, als, en, number) ==
    [t |-> t, aliases |-> als, enabled |-> en, entry_number |-> number,
     pieces |-> <<>>, id |-> 0, pc |-> "scan"]

\* The end of the iteration: ins is what "Insert into entries tree" left.
Inserted(number, pr, lp, ins) ==
    [t |-> ins.t, aliases |-> lp.aliases, enabled |-> pr.enabled,
     entry_number |-> NextNumber(number), pieces |-> ins.pieces,
     id |-> NextNumber(number), pc |-> ins.pc]

\* "Prepare next reference id" and "Insert into entries tree": cr is what
\* the cross-references left.
CrossReferenced(t, number, m, pr, lp, sp, so, cr) ==
    IF cr.raised
    THEN [Same(cr.t, lp.aliases, pr.enabled, number) EXCEPT !.pc = "raised"]
    ELSE Inserted(number, pr, lp,
             Insert(cr.t, m, pr, lp.label, lp.comps, sp.suffix,
                    IF so.sort_key = <<>> THEN <<>>
                    ELSE process_wildcards(t.entries, SpanContents(m),
                                           so.sort_key, TRUE),
                    cr, NextNumber(number)))

\* From "Sort key" on, for a directive with a label: sp is the suffix
\* found, so the sort key found.
Referenced(t, number, m, pr, lp, sp, so) ==
    CrossReferenced(t, number, m, pr, lp, sp, so,
        CrossRefs(t, lp.aliases, SpanContents(m), so.params,
                  Append(lp.comps, lp.label)))

\* `if not label:` and the suffix, for a directive whose label path lp
\* was read.
Suffixed(t, number, m, pr, lp, sp) ==
    Referenced(t, number, m, pr, lp, sp, SortPart(Strip(sp.params)))

\* What follows the label path lp of a directive that is not skipped.
Labelled(t, als, number, m, pr, lp) ==
    IF lp.outcome = "raise"
    THEN [Same(t, als, pr.enabled, number) EXCEPT !.pc = "raised"]
    ELSE IF lp.outcome = "alias_only"
    THEN [Same(t, lp.aliases, pr.enabled, number)
            EXCEPT !.pc = IF SpanRaises(m) THEN "raised" ELSE "scan"]
    ELSE IF lp.label = <<>>
    THEN [Same(t, lp.aliases, pr.enabled, number)
            EXCEPT !.pieces = <<Verbatim(m)>>]
    ELSE Suffixed(t, number, m, pr, lp, SuffixPart(Strip(lp.params)))

\* What follows "Determine type of directive", whose findings are pr.
Typed(t, als, number, m, pr) ==
    IF pr.skip
    THEN [Same(t, als, pr.enabled, number)
            EXCEPT !.pieces = SkippedPieces(pr.removed, m)]
    ELSE Labelled(t, als, number, m, pr,
                  LabelPath(t.entries, als, SpanContents(m), pr.params))

\* One iteration of `for directive in directive_matches` of create_index:
\* the state it leaves, the pieces it contributes to indexed_doc and the id
\* it prepared (0: none).
Directive(t, als, en, number, m) == Typed(t, als, number, m, Prologue(m, en))

----------------------------------------------------------------------------
(* The documents scanned and the calls made *)

NoToks == <<>>

\* The directives a document is made of.
PlainA    == Mark(NoToks, <<"A">>)                          \* {^A}
PlainLowA == Mark(NoToks, <<"a">>)                          \* {^a}
CloseA    == Mark(NoToks, <<"A", "/">>)                     \* {^A/}
NestedAB  == Mark(NoToks, <<"A", ">", "B">>)                \* {^A>B}
Disable   == Mark(NoToks, <<"-">>)                          \* {^-}
Enable    == Mark(NoToks, <<" ", "+", " ">>)                \* {^ + }
TokDisable == Mark(<<Tok(FALSE, <<"v">>)>>, <<"-">>)        \* v{^-}
SeeOnly   == Mark(NoToks, <<"A", "|", "B">>)                \* {^A|B}
CloseBInA == Mark(NoToks, <<"B", "|", "@", "A", "/">>)      \* {^B|@A/}
AliasOnly == Mark(NoToks, <<"A", "#", "#", "x">>)           \* {^A##x}
NoLabel   == Mark(NoToks, <<>>)                             \* {^}
TokCloseA == Mark(<<Tok(TRUE, <<"v">>)>>, <<"A", "/">>)     \* [v]{^A/}

CoreMarks ==
    {PlainA, PlainLowA, CloseA, NestedAB, Disable, Enable, TokDisable,
     SeeOnly, CloseBInA, AliasOnly, NoLabel, TokCloseA}

\* The labels and ancestor lists entry_at_path is called with directly.
CallLabels == {<<"A">>, <<"a">>, <<"B">>}
CallPaths  == {<<>>, <<<<"A">>>>, <<<<"A">>, <<"B">>>>}

Tree == [entries |-> entries, next_id |-> next_id, depth |-> depth]

\* TextIndex.__init__ and the first lines of create_index.
Init ==
    /\ entries = <<>>
    /\ next_id = 0
    /\ depth = 0
    /\ aliases = <<>>
    /\ enabled = TRUE
    /\ entry_number = 0
    /\ out = <<>>
    /\ doc = <<>>
    /\ ids = <<>>
    /\ pc = "scan"
    /\ calls = <<>>

\* The state after the iteration for directive m, which left d.
Scanned(m, d) ==
    /\ entries' = d.t.entries
    /\ next_id' = d.t.next_id
    /\ depth' = d.t.depth
    /\ aliases' = d.aliases
    /\ enabled' = d.enabled
    /\ entry_number' = d.entry_number
    /\ out' = out \o d.pieces
    /\ ids' = Append(ids, d.id)
    /\ pc' = d.pc
    /\ doc' = Append(doc, m)
    /\ UNCHANGED calls

\* create_index: the loop body, for the next directive m of the document.
ScanMark(m) ==
    /\ pc = "scan"
    /\ Len(doc) < MaxMarks
    /\ Scanned(m, Directive(Tree, aliases, enabled, entry_number, m))

\* The text of a document around its directives: none, or white space,
\* which is what separates the directives of a document here.  The words
\* of a document are those of the tokens in front of its marks.
Texts == {<<>>, <<" ">>}

\* `if self.original_document:` for a document of the directives d and
\* the text given around them.
HasDocument(d, text) == d # <<>> \/ text # <<>>

\* The end of create_index for a document with no further directive:
\* `self._indexed_document = indexed_doc` raises UnboundLocalError when the
\* body was skipped, the document being empty or None.
Finished(d, text) == IF HasDocument(d, text) THEN "done" ELSE "raised"

\* create_index: the document has no further directive.
Finish ==
    /\ pc = "scan"
    /\ \E text \in Texts : pc' = Finished(doc, text)
    /\ UNCHANGED <<entries, next_id, depth, aliases, enabled, entry_number,
                   out, doc, ids, calls>>

\* TextIndex.existing_entry_at_path
existing_entry_at_path(t, path) ==
    IF path = <<>> THEN 0
    ELSE entry_at_path(t, path[Len(path)], Upto(path, Len(path) - 1),
                       FALSE).entry

\* The entries whose path_list() is path.
EntriesAt(ents, path) == {e \in 1..Len(ents) : PathList(ents, e) = path}

\* A direct call of TextIndex.entry_at_path.  Besides the arguments and
\* the two values returned, the record keeps whether an entry with that
\* path was in the tree before the call and the size of the tree after it.
CallEntryAtPath(label, path_list, create) ==
    /\ pc = "scan"
    /\ Len(calls) < MaxCalls
    /\ LET r == entry_at_path(Tree, label, path_list, create)
       IN  /\ entries' = r.t.entries
           /\ next_id' = r.t.next_id
           /\ depth' = r.t.depth
           /\ calls' = Append(calls,
                  [label |-> label, path_list |-> path_list,
                   create |-> create, entry |-> r.entry,
                   existed |-> r.existed,
                   had |-> EntriesAt(entries, Append(path_list, label)) # {},
                   size |-> Len(r.t.entries)])
    /\ UNCHANGED <<aliases, enabled, entry_number, out, doc, ids, pc>>

Next ==
    \/ \E m \in CoreMarks : ScanMark(m)
    \/ Finish

Spec == Init /\ [][Next]_vars

NextApi ==
    \E label \in CallLabels, path_list \in CallPaths, create \in BOOLEAN :
        CallEntryAtPath(label, path_list, create)

SpecApi == Init /\ [][NextApi]_vars

----------------------------------------------------------------------------
(* Documents of cross-references, and direct add_cross_reference calls *)

AlsoAB    == Mark(NoToks, <<"A", "|", "+", "B">>)           \* {^A|+B}
SeeTwice  == Mark(NoToks, <<"A", "|", "B", ";", "B">>)      \* {^A|B;B}
InboundBA == Mark(NoToks, <<"B", "|", "@", "A">>)           \* {^B|@A}
InAlsoBA  == Mark(NoToks, <<"B", "|", "@", "+", "A">>)      \* {^B|@+A}

XrefMarks == {PlainA, SeeOnly, AlsoAB, SeeTwice, InboundBA, InAlsoBA}

XrefKinds == {"see", "also"}
XrefPaths == {<<<<"B">>>>, <<<<"B">>, <<"C">>>>}

\* A direct call of TextIndexEntry.add_cross_reference on entry e (the
\* calls made are on the first entry created), once create_index has
\* returned.  The record keeps the arguments and the
\* entry's cross-reference list before and after the call.
CallAddCrossReference(e, ref_type, path) ==
    /\ pc = "done"
    /\ Len(calls) < MaxCalls
    /\ e \in 1..Len(entries)
    /\ entries' = [entries EXCEPT ![e] = add_cross_reference(@, ref_type, path)]
    /\ calls' = Append(calls,
           [entry |-> e, ref_type |-> ref_type, path |-> path,
            before |-> entries[e].cross_references,
            after |-> entries'[e].cross_references])
    /\ UNCHANGED <<next_id, depth, aliases, enabled, entry_number, out, doc,
                   ids, pc>>

NextXref ==
    \/ \E m \in XrefMarks : ScanMark(m)
    \/ Finish
    \/ \E ref_type \in XrefKinds, path \in XrefPaths :
          CallAddCrossReference(1, ref_type, path)

SpecXref == Init /\ [][NextXref]_vars

----------------------------------------------------------------------------
(* Documents of alias definitions and alias references *)

DefX       == Mark(NoToks, <<"a", " ", "b", "#", "#", "x">>)  \* {^a b##x}
NestedDefX == Mark(NoToks, <<"A", ">", "B", "#", "#", "x">>)  \* {^A>B##x}
RedefX     == Mark(NoToks, <<"B", "#", "#", "x">>)            \* {^B##x}
LabelDefX  == Mark(NoToks, <<"B", "#", "x">>)                 \* {^B#x}
TokDefX    == Mark(<<Tok(TRUE, <<"v">>)>>, <<"#", "#", "x">>) \* [v]{^##x}
RefX       == Mark(NoToks, <<"#", "x">>)                      \* {^#x}
RefXChild  == Mark(NoToks, <<"#", "x", ">", "B">>)            \* {^#x>B}
SeeX       == Mark(NoToks, <<"A", "|", "#", "x">>)            \* {^A|#x}
InboundX   == Mark(NoToks, <<"A", "|", "@", "#", "x">>)       \* {^A|@#x}

AliasMarks ==
    {DefX, NestedDefX, RedefX, LabelDefX, TokDefX, RefX, RefXChild, SeeX,
     InboundX}

NextAlias ==
    \/ \E m \in AliasMarks : ScanMark(m)
    \/ Finish

SpecAlias == Init /\ [][NextAlias]_vars

----------------------------------------------------------------------------
(* Documents of nested paths *)

PlainB       == Mark(NoToks, <<"B">>)                          \* {^B}
NestedSorted == Mark(NoToks, <<"A", ">", "B", "~", "c">>)      \* {^A>B~c}
NestedAlso   == Mark(NoToks, <<"A", ">", "B", "|", "+", "C">>) \* {^A>B|+C}
NestedSee    == Mark(NoToks, <<"A", ">", "B", "|", "C">>)      \* {^A>B|C}
NestedABC    == Mark(NoToks, <<"A", ">", "B", ">", "C">>)      \* {^A>B>C}

NestedMarks ==
    {PlainA, PlainB, NestedAB, NestedSorted, NestedAlso, NestedSee,
     NestedABC}

NextNested ==
    \/ \E m \in NestedMarks : ScanMark(m)
    \/ Finish

SpecNested == Init /\ [][NextNested]_vars

----------------------------------------------------------------------------
(* Documents whose marks have visible text in front of them *)

TokA    == Mark(<<Tok(TRUE, <<"v">>)>>, <<"A">>)                \* [v]{^A}
BareA   == Mark(<<Tok(FALSE, <<"v">>)>>, <<"A">>)               \* v{^A}
TwoTokA == Mark(<<Tok(FALSE, <<"x">>), Tok(TRUE, <<"v">>)>>,
                <<"A">>)                                        \* x[v]{^A}

VisibleMarks ==
    {PlainA, Disable, Enable, TokA, BareA, TwoTokA, TokDisable, TokCloseA}

NextVisible ==
    \/ \E m \in VisibleMarks : ScanMark(m)
    \/ Finish

SpecVisible == Init /\ [][NextVisible]_vars

----------------------------------------------------------------------------
(* Range elision *)

\* str(n) for n >= 0, as the sequence of its decimal digits, and int(ds).
RECURSIVE Digits(_)
Digits(n) == IF n < 10 THEN <<n>> ELSE Append(Digits(n \div 10), n % 10)
RECURSIVE ToInt(_)
ToInt(ds) ==
    IF ds = <<>> THEN 0
    ELSE 10 * ToInt(Upto(ds, Len(ds) - 1)) + ds[Len(ds)]

\* `while start_str[cut] == end_str[cut]: cut += 1`, from cut on.
RECURSIVE MatchingDigits(_, _, _)
MatchingDigits(start_str, end_str, cut) ==
    IF start_str[cut + 1] = end_str[cut + 1]
    THEN MatchingDigits(start_str, end_str, cut + 1)
    ELSE cut

\* elide_end trimming the matching digits with no exception.
ElideDigitsAll(end_str, cut) == From(end_str, cut)

\* "if the numbers are teens (i.e. second-last digit is 1), retain the 1":
\* end_str[cut:] for the cut found, one less when cut == end_len - 1 and
\* end_str[-2] == "1".
ElideDigits(end_str, cut) ==
    IF Len(end_str) > 1 /\ cut = Len(end_str) - 1
       /\ end_str[Len(end_str) - 1] = 1
    THEN From(end_str, cut - 1)
    ELSE From(end_str, cut)

\* elide_end without the trimming: the end of the range as it is.
elide_end_untrimmed(start, end) == ToInt(Digits(end))

\* elide_end(start, end)
elide_end(start, end) ==
    IF Len(Digits(start)) = Len(Digits(end)) /\ Len(Digits(start)) > 1
       /\ start # end
    THEN ToInt(ElideDigits(Digits(end),
                           MatchingDigits(Digits(start), Digits(end), 0)))
    ELSE ToInt(Digits(end))

\* A call of elide_end; calls holds the call made, with its result.
CallElideEnd(start, end) ==
    /\ pc = "scan"
    /\ calls' = <<[start |-> start, end |-> end,
                   result |-> elide_end(start, end)]>>
    /\ UNCHANGED <<entries, next_id, depth, aliases, enabled, entry_number,
                   out, doc, ids, pc>>

\* One call is made.
NextElide ==
    /\ calls = <<>>
    /\ \E start, end \in 1..MaxNumber : CallElideEnd(start, end)

SpecElide == Init /\ [][NextElide]_vars

----------------------------------------------------------------------------
(* Documents that build a tree, and direct process_wildcards calls *)

DeepAB == Mark(NoToks, <<"B", ">", "A", "B">>)                \* {^B>AB}

TreeMarks == {PlainA, PlainB, PlainLowA, DeepAB}

\* The texts process_wildcards is called with: a search wildcard, `*^` or
\* `*^-`, between a text in front of it and a text behind it.
WildLabels == {<<"A">>, <<"a">>, <<"C">>}
WildFronts == {<<>>, <<"x", ">">>}
WildBacks  == {<<>>, <<">", "y">>}
WildText(front, minus, back) ==
    front \o (IF minus THEN <<"*", "^", "-">> ELSE <<"*", "^">>) \o back

\* A direct call of TextIndex.process_wildcards, made once create_index
\* has returned; calls holds the call made, with the text returned.
CallProcessWildcards(label, front, minus, back, force_label_only) ==
    /\ pc = "done"
    /\ calls' = <<[label |-> label, front |-> front, minus |-> minus,
                   back |-> back, force_label_only |-> force_label_only,
                   result |-> process_wildcards(entries, label,
                                  WildText(front, minus, back),
                                  force_label_only)]>>
    /\ UNCHANGED <<entries, next_id, depth, aliases, enabled, entry_number,
                   out, doc, ids, pc>>

NextWild ==
    \/ \E m \in TreeMarks : ScanMark(m)
    \/ Finish
    \/ /\ calls = <<>>
       /\ \E label \in WildLabels, front \in WildFronts, minus \in BOOLEAN,
             back \in WildBacks, force_label_only \in BOOLEAN :
             CallProcessWildcards(label, front, minus, back,
                                  force_label_only)

SpecWild == Init /\ [][NextWild]_vars

----------------------------------------------------------------------------
(* Documents of inbound cross-references *)

DeepInbound == Mark(NoToks, <<"B", "|", "@", "A", ">", "C">>)   \* {^B|@A>C}
DeepInAlso  == Mark(NoToks,
                    <<"B", "|", "@", "+", "A", ">", "C">>)      \* {^B|@+A>C}

InboundMarks ==
    {PlainA, PlainB, InboundBA, InAlsoBA, DeepInbound, DeepInAlso}

NextInbound ==
    \/ \E m \in InboundMarks : ScanMark(m)
    \/ Finish

SpecInbound == Init /\ [][NextInbound]_vars

(* load_concordance_file: the ranges that receive a synthesized mark *)

\* A range is <<start, end>>, the half-open span of a regular-expression
\* match in the document; MaxPos bounds the document's length and
\* MaxMatches the matches one expression finds.
Ranges == {r \in (0..MaxPos) \X (0..MaxPos) : r[1] < r[2]}

\* What re.finditer yields: matches in order of appearance, none
\* overlapping the one before it.
IsFinditer(l) == \A i \in 1..(Len(l) - 1) : l[i][2] <= l[i + 1][1]
Finditers ==
    {l \in UNION {[1..n -> Ranges] : n \in 0..MaxMatches} : IsFinditer(l)}

\* list.sort(key=lambda x: x[0]): a stable sort by start.
RECURSIVE InsertByStart(_, _, _)
InsertByStart(sorted, r, i) ==
    IF i > Len(sorted) THEN Append(sorted, r)
    ELSE IF sorted[i][1] > r[1]
         THEN SubSeq(sorted, 1, i - 1) \o <<r>>
              \o SubSeq(sorted, i, Len(sorted))
         ELSE InsertByStart(sorted, r, i + 1)

RECURSIVE SortByStart(_, _, _)
SortByStart(l, i, sorted) ==
    IF i > Len(l) THEN sorted
    ELSE SortByStart(l, i + 1, InsertByStart(sorted, l[i], 1))

\* The inner loop over excluded_ranges[i..], for one term: is_excluded and
\* last_checked when the loop ends.  Indexes count from 1.
RECURSIVE ExcludedScan(_, _, _, _)
ExcludedScan(excluded_ranges, term, i, last_checked) ==
    IF i > Len(excluded_ranges)
    THEN [is_excluded |-> FALSE, last_checked |-> last_checked]
    ELSE IF excluded_ranges[i][2] <= term[1]
         THEN ExcludedScan(excluded_ranges, term, i + 1, i)
    ELSE IF excluded_ranges[i][1] >= term[2]
         THEN [is_excluded |-> FALSE, last_checked |-> last_checked]
    ELSE IF term[1] >= excluded_ranges[i][1]
            \/ term[2] <= excluded_ranges[i][2]
         THEN [is_excluded |-> TRUE, last_checked |-> last_checked]
    ELSE ExcludedScan(excluded_ranges, term, i + 1, last_checked)

\* The loop over one expression's matches: new_exclusions when it ends.
RECURSIVE TermsStep(_, _, _, _, _)
RECURSIVE TermsLoop(_, _, _, _, _)
TermsStep(excluded_ranges, term_matches, k, scan, new_exclusions) ==
    TermsLoop(excluded_ranges, term_matches, k + 1, scan.last_checked,
              IF scan.is_excluded THEN new_exclusions
              ELSE Append(new_exclusions, term_matches[k]))
TermsLoop(excluded_ranges, term_matches, k, last_checked, new_exclusions) ==
    IF k > Len(term_matches) THEN new_exclusions
    ELSE TermsStep(excluded_ranges, term_matches, k,
                   ExcludedScan(excluded_ranges, term_matches[k],
                                last_checked, last_checked),
                   new_exclusions)

\* The loop over the concordance: term_ranges when it ends, each with the
\* number of the expression that matched it.
Numbered(new_exclusions, c) ==
    [k \in 1..Len(new_exclusions) |->
        <<new_exclusions[k][1], new_exclusions[k][2], c>>]

RECURSIVE ConcStep(_, _, _, _, _)
RECURSIVE ConcLoop(_, _, _, _)
ConcStep(excluded_ranges, concordance, c, term_ranges, new_exclusions) ==
    ConcLoop(SortByStart(excluded_ranges \o new_exclusions, 1, <<>>),
             concordance, c + 1,
             term_ranges \o Numbered(new_exclusions, c))
ConcLoop(excluded_ranges, concordance, c, term_ranges) ==
    IF c > Len(concordance) THEN term_ranges
    ELSE ConcStep(excluded_ranges, concordance, c, term_ranges,
                  TermsLoop(excluded_ranges, concordance[c], 1, 1, <<>>))

\* The spans load_concordance_file inserts marks at, in order of
\* appearance.
load_concordance_ranges(excluded_ranges, concordance) ==
    SortByStart(ConcLoop(excluded_ranges, concordance, 1, <<>>), 1, <<>>)

\* A call of load_concordance_file on a document in which the exclusion
\* expression matches at excluded_ranges and the concordance's two
\* expressions match at first and second; calls holds the call made, with
\* the spans marked.
CallLoadConcordance(excluded_ranges, first, second) ==
    /\ pc = "scan"
    /\ calls' = <<[excluded_ranges |-> excluded_ranges,
                   concordance |-> <<first, second>>,
                   term_ranges |-> load_concordance_ranges(
                                       excluded_ranges, <<first, second>>)]>>
    /\ UNCHANGED <<entries, next_id, depth, aliases, enabled, entry_number,
                   out, doc, ids, pc>>

\* One call is made.
NextConc ==
    /\ calls = <<>>
    /\ \E excluded_ranges \in Finditers, first \in Finditers,
          second \in Finditers :
          CallLoadConcordance(excluded_ranges, first, second)

SpecConc == Init /\ [][NextConc]_vars

----------------------------------------------------------------------------

(* The order of labels and of cross-references *)

\* The characters of the labels here, in the order of their code points,
\* and Python's `<` on strings.
CharOrder ==
    <<" ", "!", "#", "*", "+", "-", "/", ";", ">", "@">> \o AsciiUpper
    \o <<"^", "_">> \o AsciiLower \o <<"|", "~">>
Rank(c) == CHOOSE i \in 1..Len(CharOrder) : CharOrder[i] = c
RECURSIVE StrLess(_, _)
StrLess(a, b) ==
    IF b = <<>> THEN FALSE
    ELSE IF a = <<>> THEN TRUE
    ELSE IF Head(a) = Head(b) THEN StrLess(Tail(a), Tail(b))
    ELSE Rank(Head(a)) < Rank(Head(b))

\* "".join(path)
RECURSIVE Concat(_)
Concat(path) == IF path = <<>> THEN <<>> ELSE Head(path) \o Concat(Tail(path))

\* sorted(xs, key=...): a stable sort of records by their field key; xs[i]
\* is placed behind the elements already placed whose key is not greater.
RECURSIVE InsertByKey(_, _, _)
InsertByKey(sorted, x, i) ==
    IF i > Len(sorted) THEN Append(sorted, x)
    ELSE IF StrLess(x.key, sorted[i].key)
         THEN SubSeq(sorted, 1, i - 1) \o <<x>>
              \o SubSeq(sorted, i, Len(sorted))
         ELSE InsertByKey(sorted, x, i + 1)
RECURSIVE SortByKey(_, _, _)
SortByKey(xs, i, sorted) ==
    IF i > Len(xs) THEN sorted
    ELSE SortByKey(xs, i + 1, InsertByKey(sorted, xs[i], 1))
Values(keyed) == [k \in 1..Len(keyed) |-> keyed[k].val]

\* TextIndexEntry.sort_cross_refs: by joined path, then the 'see' ones
\* first ("see" sorts behind "also", and the order is reversed).
ByPath(xrefs) ==
    Values(SortByKey([k \in 1..Len(xrefs) |->
                         [key |-> Concat(xrefs[k].path), val |-> xrefs[k]]],
                     1, <<>>))
SeeFirst(xrefs) ==
    SelectSeq(xrefs, LAMBDA x : x.ref_type = "see")
    \o SelectSeq(xrefs, LAMBDA x : x.ref_type = "also")
sort_cross_refs(xrefs) == SeeFirst(ByPath(xrefs))

----------------------------------------------------------------------------

(* index_html: the size ratio of the index to the document *)

\* The characters `\w` matches, of the ASCII ones.
WordChars == UpperLetters \cup LowerLetters \cup AsciiDigits \cup {"_"}

\* len(re.findall(r"\b\w+\b", s)): the runs of word characters in s.
WordCount(s) ==
    Cardinality({i \in 1..Len(s) :
                    /\ s[i] \in WordChars
                    /\ (i = 1 \/ s[i - 1] \notin WordChars)})

\* The words the tokens in front of a mark hold; a bracket ends a word.
RECURSIVE TokWords(_)
TokWords(toks) ==
    IF toks = <<>> THEN 0
    ELSE WordCount(Head(toks).txt) + TokWords(Tail(toks))

\* The words of one piece of the output document, tags stripped: of an
\* anchor span its contents, of a mark left as written its tokens and the
\* text between its braces.
PieceWords(p) ==
    IF p.kind = "span" THEN WordCount(SpanContents(p.mark))
    ELSE TokWords(p.mark.toks) + WordCount(p.mark.body)

\* wc_doc: the words of the output document, whose pieces white space
\* separates.
RECURSIVE DocWords(_)
DocWords(o) ==
    IF o = <<>> THEN 0 ELSE PieceWords(Head(o)) + DocWords(Tail(o))

\* wc_index: the words of the rendered index.  The rendering is not part
\* of this model: html is empty without entries, and holds the label of
\* every entry otherwise.
IndexWords(ents) ==
    IF Len(ents) = 0 THEN {0} ELSE Len(ents)..(Len(ents) + MaxExtraWords)

\* round((wc_index / wc_doc) * 100, 1), in tenths of a percent, for
\* wc_doc > 0.  No quotient lies halfway between two tenths when wc_doc is
\* below 16.
Ratio(wc_index, wc_doc) ==
    (wc_index * 2000 + wc_doc) \div (2 * wc_doc)

\* The end of index_html: what the size check leaves of the call.
\* "ZeroDivisionError" is raised by the division, and nothing is returned;
\* otherwise the index is returned after the message named.
SizeCheck(wc_index, wc_doc) ==
    IF wc_doc = 0 THEN "ZeroDivisionError"
    ELSE IF Ratio(wc_index, wc_doc) < 20 THEN "short"
    ELSE IF Ratio(wc_index, wc_doc) > 60 THEN "long"
    ELSE "good"

\* A call of TextIndex.index_html, made once create_index has returned;
\* calls holds the word counts and the outcome.  Every entry is rendered
\* before the size check, which leaves its cross-references sorted.
CallIndexHtml(wc_index) ==
    /\ pc = "done"
    /\ calls' = <<[wc_doc |-> DocWords(out), wc_index |-> wc_index,
                   outcome |-> SizeCheck(wc_index, DocWords(out))]>>
    /\ entries' = [k \in 1..Len(entries) |->
                     [entries[k] EXCEPT !.cross_references =
                          sort_cross_refs(@)]]
    /\ UNCHANGED <<next_id, depth, aliases, enabled, entry_number,
                   out, doc, ids, pc>>

RatioMarks == {PlainA, PlainB, Disable, Enable, TokA, SeeOnly, AlsoAB}

NextRatio ==
    \/ \E m \in RatioMarks : ScanMark(m)
    \/ Finish
    \/ /\ calls = <<>>
       /\ \E wc_index \in IndexWords(entries) : CallIndexHtml(wc_index)

SpecRatio == Init /\ [][NextRatio]_vars

----------------------------------------------------------------------------

(* Several TextIndex objects in one process *)

\* TextIndex(document) for a further document, once the object before it
\* has been scanned: the new object starts with no entries, while the
\* class attribute TextIndexEntry._next_id keeps its value.  calls holds,
\* for every object left behind, its document and what its scan built.
NewTextIndex ==
    /\ pc = "done"
    /\ Len(calls) + 1 < MaxInstances
    /\ calls' = Append(calls, [doc |-> doc, entries |-> entries,
                               out |-> out])
    /\ entries' = <<>>
    /\ depth' = 0
    /\ aliases' = <<>>
    /\ enabled' = TRUE
    /\ entry_number' = 0
    /\ out' = <<>>
    /\ doc' = <<>>
    /\ ids' = <<>>
    /\ pc' = "scan"
    /\ UNCHANGED next_id

InstanceMarks == {PlainA, NestedAB}

NextInstances ==
    \/ \E m \in InstanceMarks : ScanMark(m)
    \/ Finish
    \/ NewTextIndex

SpecInstances == Init /\ [][NextInstances]_vars

----------------------------------------------------------------------------

(* config.py: load_project_config *)

\* An Optional[str]: None, or a text.
None == <<>>
Some(s) == <<s>>

\* ConcordanceRule.__init__ and __post_init__: an empty replacement or
\* comment becomes None.
ConcordanceRule(pattern, replacement, comment) ==
    [pattern |-> pattern,
     replacement |-> IF replacement = Some(<<>>) THEN None ELSE replacement,
     comment |-> IF comment = Some(<<>>) THEN None ELSE comment]

\* IndexConfig: the defaults of the rendering options (two of them are
\* modelled), and IndexConfig(**options).
IndexConfigDefaults ==
    [see_label |-> <<"s", "e", "e">>, group_headings |-> FALSE]
IndexConfig(options) ==
    [k \in DOMAIN IndexConfigDefaults |->
        IF k \in DOMAIN options THEN options[k] ELSE IndexConfigDefaults[k]]

\* ProjectConfig(rendering, concordance_rules); ProjectConfig() takes the
\* default of both fields.
ProjectConfig(rendering, concordance_rules) ==
    [rendering |-> rendering, concordance_rules |-> concordance_rules]
ProjectConfigDefault == ProjectConfig(IndexConfig(<<>>), <<>>)

\* _parse_concordance_from_toml, for the list data["concordance"]["rules"]
\* of tables; a key a table does not hold is None here.
parse_concordance_from_toml(rules_data) ==
    [i \in 1..Len(rules_data) |->
        ConcordanceRule(IF rules_data[i].pattern = None THEN <<>>
                        ELSE rules_data[i].pattern[1],
                        rules_data[i].replacement,
                        rules_data[i].comment)]

\* ProjectConfig.from_toml
from_toml(data) ==
    ProjectConfig(IndexConfig(data.rendering),
                  parse_concordance_from_toml(data.rules))

\* `[col.strip() for col in row if col.strip()]`
RECURSIVE Parts(_)
Parts(row) ==
    IF row = <<>> THEN <<>>
    ELSE IF Strip(Head(row)) = <<>> THEN Parts(Tail(row))
    ELSE <<Strip(Head(row))>> \o Parts(Tail(row))

\* _parse_concordance_from_tsv_rows
RECURSIVE parse_concordance_from_tsv_rows(_)
parse_concordance_from_tsv_rows(rows) ==
    IF rows = <<>> THEN <<>>
    ELSE IF \/ Head(rows) = <<>>
            \/ Strip(Head(rows)[1]) = <<>>
            \/ StartsWith(Strip(Head(rows)[1]), "#")
         THEN parse_concordance_from_tsv_rows(Tail(rows))
    ELSE <<ConcordanceRule(
               Parts(Head(rows))[1],
               IF Len(Parts(Head(rows))) > 1
               THEN Some(Parts(Head(rows))[2]) ELSE None,
               None)>>
         \o parse_concordance_from_tsv_rows(Tail(rows))

\* ProjectConfig.from_tsv
from_tsv(rows) ==
    ProjectConfig(IndexConfig(<<>>), parse_concordance_from_tsv_rows(rows))

\* load_project_config with the two tests exchanged.
load_project_config_tsv_first(toml, tsv) ==
    IF tsv.is_file THEN from_tsv(tsv.rows)
    ELSE IF toml.is_file THEN from_toml(toml.data)
    ELSE ProjectConfigDefault

\* load_project_config, for the two files of the directory example: is_file
\* tells whether the file exists, data is what tomllib.load returns for the
\* one and rows what csv.reader yields for the other.
load_project_config(toml, tsv) ==
    IF toml.is_file THEN from_toml(toml.data)
    ELSE IF tsv.is_file THEN from_tsv(tsv.rows)
    ELSE ProjectConfigDefault

\* The files the calls are made with.
NoData == [rendering |-> <<>>, rules |-> <<>>]
TomlTables ==
    {[pattern |-> Some(<<"f">>), replacement |-> Some(<<"b">>),
      comment |-> None],
     [pattern |-> Some(<<"z">>), replacement |-> Some(<<>>),
      comment |-> Some(<<>>)],
     [pattern |-> None, replacement |-> None, comment |-> Some(<<"c">>)]}
TomlRenderings ==
    {<<>>, [see_label |-> <<"c", "f">>], [group_headings |-> TRUE]}
TomlFiles ==
    {[is_file |-> FALSE, data |-> NoData]}
    \cup {[is_file |-> TRUE, data |-> [rendering |-> r, rules |-> l]] :
             r \in TomlRenderings,
             l \in UNION {[1..n -> TomlTables] : n \in 0..MaxRules}}
TsvRows ==
    {<<>>, <<<<"f">>, <<"b">>>>, <<<<"#", "c">>, <<"b">>>>,
     <<<<" ">>, <<"f">>>>, <<<<" ", "z", " ">>, <<>>, <<"q">>, <<"r">>>>}
TsvFiles ==
    {[is_file |-> FALSE, rows |-> <<>>]}
    \cup {[is_file |-> TRUE, rows |-> l] :
             l \in UNION {[1..n -> TsvRows] : n \in 0..MaxRules}}

\* A call of load_project_config; calls holds the call made, with the
\* configuration returned.
CallLoadProjectConfig(toml, tsv) ==
    /\ pc = "scan"
    /\ calls' = <<[toml |-> toml, tsv |-> tsv,
                   result |-> load_project_config(toml, tsv)]>>
    /\ UNCHANGED <<entries, next_id, depth, aliases, enabled, entry_number,
                   out, doc, ids, pc>>

\* One call is made.
NextConfig ==
    /\ calls = <<>>
    /\ \E toml \in TomlFiles, tsv \in TsvFiles :
          CallLoadProjectConfig(toml, tsv)

SpecConfig == Init /\ [][NextConfig]_vars

----------------------------------------------------------------------------

(* Documents of marks that end with marker characters *)

BangA       == Mark(NoToks, <<"A", "!">>)                      \* {^A!}
BangCloseA  == Mark(NoToks, <<"A", "!", "/">>)                 \* {^A!/}
CloseBangA  == Mark(NoToks, <<"A", "/", "!">>)                 \* {^A/!}
CloseCloseA == Mark(NoToks, <<"A", "/", "/">>)                 \* {^A//}
BangBangA   == Mark(NoToks, <<"A", "!", "!">>)                 \* {^A!!}

TrailingMarks ==
    {PlainA, CloseA, BangA, BangCloseA, CloseBangA, CloseCloseA, BangBangA}

NextTrailing ==
    \/ \E m \in TrailingMarks : ScanMark(m)
    \/ Finish

SpecTrailing == Init /\ [][NextTrailing]_vars

----------------------------------------------------------------------------

(* create_index in section mode: the section numbers of the headings *)

\* str(n) for 0 <= n, as text.
DigitChars == <<"0", "1", "2", "3", "4", "5", "6", "7", "8", "9">>
Str(n) == [k \in 1..Len(Digits(n)) |-> DigitChars[Digits(n)[k] + 1]]

\* ".".join(str(i) for i in section_stack)
RECURSIVE DottedJoin(_)
DottedJoin(stack) ==
    IF stack = <<>> THEN <<>>
    ELSE IF Len(stack) = 1 THEN Str(stack[1])
    ELSE Str(stack[1]) \o <<".">> \o DottedJoin(Tail(stack))

\* section_stack[-1] += 1
IncrementTop(stack) == [stack EXCEPT ![Len(stack)] = @ + 1]

\* `for x in range(a, b): section_stack.append(0)`
Zeros(a, b) == [k \in 1..(IF b > a THEN b - a ELSE 0) |-> 0]

\* `if increment_section:` — the stack and prev_heading_level a listed
\* heading of level head_level leaves.  Popping an empty list, and
\* incrementing the top of one, raise IndexError.
Incremented(stack, prev, head_level) ==
    IF head_level = prev
    THEN [section_stack |-> IncrementTop(stack),
          prev_heading_level |-> head_level, raised |-> FALSE]
    ELSE IF head_level > prev
    THEN [section_stack |-> stack \o Zeros(prev, head_level - 1) \o <<1>>,
          prev_heading_level |-> head_level, raised |-> FALSE]
    ELSE IF prev - head_level >= Len(stack)
    THEN [section_stack |-> <<>>, prev_heading_level |-> prev,
          raised |-> TRUE]
    ELSE [section_stack |->
              IncrementTop(Upto(stack, Len(stack) - (prev - head_level))),
          prev_heading_level |-> head_level, raised |-> FALSE]

\* One heading met between two marks: `if len(section_stack) == 0` first,
\* then the increment unless the heading is marked no-toc or unlisted.
Heading(stack, prev, head_level, increment_section) ==
    IF increment_section
    THEN Incremented(IF stack = <<>> THEN <<0>> ELSE stack,
                     IF stack = <<>> THEN head_level ELSE prev, head_level)
    ELSE [section_stack |-> IF stack = <<>> THEN <<0>> ELSE stack,
          prev_heading_level |-> IF stack = <<>> THEN head_level ELSE prev,
          raised |-> FALSE]

\* The heading read and what it left: calls holds one such record for
\* every heading of the document so far.
HeadingRead(head_level, increment_section, h) ==
    [head_level |-> head_level, increment_section |-> increment_section,
     section_stack |-> h.section_stack,
     prev_heading_level |-> h.prev_heading_level, raised |-> h.raised,
     section_number |-> DottedJoin(h.section_stack)]

\* section_stack and prev_heading_level as create_index starts with them,
\* or as the last heading left them.
HeadingState ==
    IF calls = <<>>
    THEN [section_stack |-> <<>>, prev_heading_level |-> 1, raised |-> FALSE]
    ELSE calls[Len(calls)]

\* The scan meets a further heading.
ScanHeading(head_level, increment_section) ==
    /\ pc = "scan"
    /\ Len(calls) < MaxHeadings
    /\ ~HeadingState.raised
    /\ calls' = Append(calls,
           HeadingRead(head_level, increment_section,
               Heading(HeadingState.section_stack,
                       HeadingState.prev_heading_level,
                       head_level, increment_section)))
    /\ UNCHANGED <<entries, next_id, depth, aliases, enabled, entry_number,
                   out, doc, ids, pc>>

NextSections ==
    \E head_level \in 1..6, increment_section \in BOOLEAN :
        ScanHeading(head_level, increment_section)

SpecSections == Init /\ [][NextSections]_vars

----------------------------------------------------------------------------

(* TextIndexEntry.run_in_children *)

\* run_in_children without `my_depth > 0`.
run_in_children_any_depth(ents, greatest, e, should_run_in) ==
    should_run_in /\ EntryDepth(ents, e) = greatest - 1

\* TextIndexEntry.run_in_children, for entry e of a TextIndex whose depth
\* attribute is greatest and whose should_run_in is as given.
run_in_children(ents, greatest, e, should_run_in) ==
    should_run_in
    /\ EntryDepth(ents, e) > 0
    /\ EntryDepth(ents, e) = greatest - 1

NestedABCD == Mark(NoToks,
                   <<"A", ">", "B", ">", "C", ">", "D">>)   \* {^A>B>C>D}

RunInMarks == {PlainA, NestedAB, NestedABC, NestedABCD}

\* A call of run_in_children on entry e, made once create_index has
\* returned, should_run_in having been set; calls holds the call made,
\* with its result.
CallRunInChildren(e, should_run_in) ==
    /\ pc = "done"
    /\ calls' = <<[entry |-> e, should_run_in |-> should_run_in,
                   result |-> run_in_children(entries, depth, e,
                                              should_run_in)]>>
    /\ UNCHANGED <<entries, next_id, depth, aliases, enabled, entry_number,
                   out, doc, ids, pc>>

NextRunIn ==
    \/ \E m \in RunInMarks : ScanMark(m)
    \/ Finish
    \/ /\ calls = <<>>
       /\ \E e \in 1..Len(entries), should_run_in \in BOOLEAN :
             CallRunInChildren(e, should_run_in)

SpecRunIn == Init /\ [][NextRunIn]_vars

----------------------------------------------------------------------------

(* Rendering one entry: TextIndex.entry_html *)

\* TextIndex.see read on the class, as render_cross_references reads it:
\* the property object, which is no ref-type a cross-reference holds.
SeeProperty == "property"

\* TextIndexEntry.render_xrefs_of_type: the paths rendered, in order;
\* <<>> stands for None.
render_xrefs_of_type(ents, e, ref_type) ==
    LET hits == SelectSeq(sort_cross_refs(ents[e].cross_references),
                          LAMBDA x : x.ref_type = ref_type)
    IN  [k \in 1..Len(hits) |-> hits[k].path]

render_cross_references(ents, e) == render_xrefs_of_type(ents, e, SeeProperty)
render_also_references(ents, e) == render_xrefs_of_type(ents, e, "also")

\* TextIndexEntry.has_also_refs, has_children
has_also_refs(ents, e) ==
    \E k \in 1..Len(ents[e].cross_references) :
        ents[e].cross_references[k].ref_type = "also"
has_children(ents, e) == Children(ents, e) # {}

\* TextIndexEntry.render_references, outside section mode and with
\* sort_emphasis_first off: the start ids of the locators, in order.
render_references(ents, e) ==
    [k \in 1..Len(ents[e].references) |-> ents[e].references[k].start_id]

\* TextIndexEntry.sort_on and TextIndex.sort_entries, for the children of
\* entry e (of the index when e is 0).
sort_on(ents, e) ==
    LowerStr(IF ents[e].sort_key # <<>> THEN ents[e].sort_key
             ELSE RemoveEmphasis(ents[e].label))
sort_entries(ents, e) ==
    Values(SortByKey([k \in 1..Cardinality(Children(ents, e)) |->
                         [key |-> sort_on(ents,
                                      SortedSeq(Children(ents, e))[k]),
                          val |-> SortedSeq(Children(ents, e))[k]]],
                     1, <<>>))

\* One part of the text an entry is rendered as.
Part(kind, e, items) == [kind |-> kind, entry |-> e, items |-> items]

\* `running_in = entry.parent and entry.parent.run_in_children()`
RunningIn(ents, greatest, should_run_in, e) ==
    /\ ents[e].parent # 0
    /\ run_in_children(ents, greatest, ents[e].parent, should_run_in)

\* The 'see' part and the locators of refs_html.
SeeAndLocators(ents, e) ==
    (IF render_cross_references(ents, e) # <<>>
     THEN <<Part("see", e, render_cross_references(ents, e))>> ELSE <<>>)
    \o (IF render_references(ents, e) # <<>>
        THEN <<Part("locators", e, render_references(ents, e))>>
        ELSE <<>>)

\* `refs_html = f" {also_refs_html}"`: the 'see also' part, inlined for an
\* entry without children or running its children in, is assigned to
\* refs_html, not added to it.
AlsoInlined(ents, e, run_in, refs_html) ==
    IF /\ (~has_children(ents, e) \/ run_in)
       /\ has_also_refs(ents, e)
       /\ render_also_references(ents, e) # <<>>
    THEN <<Part("also", e, render_also_references(ents, e))>>
    ELSE refs_html

\* `for child in self.sort_entries(entry.entries)`
RECURSIVE entry_html(_, _, _, _)
RECURSIVE EachHtml(_, _, _, _)
EachHtml(ents, greatest, should_run_in, kids) ==
    IF kids = <<>> THEN <<>>
    ELSE <<entry_html(ents, greatest, should_run_in, Head(kids))>>
         \o EachHtml(ents, greatest, should_run_in, Tail(kids))
RECURSIVE Flat(_)
Flat(htmls) == IF htmls = <<>> THEN <<>> ELSE Head(htmls) \o Flat(Tail(htmls))

\* The rows entry_html returns for entry e: the entry's own, whose items
\* are the parts of refs_html (children run in among them), the rows of
\* its indented children, and a row of the parent's 'see also'
\* cross-references.
Rows(ents, greatest, should_run_in, e, run_in, running_in) ==
    <<Part("entry", e,
           AlsoInlined(ents, e, run_in,
               SeeAndLocators(ents, e)
               \o (IF run_in /\ has_children(ents, e)
                   THEN <<Part("children", e,
                              EachHtml(ents, greatest, should_run_in,
                                       sort_entries(ents, e)))>>
                   ELSE <<>>)))>>
    \o (IF ~run_in
        THEN Flat(EachHtml(ents, greatest, should_run_in,
                           sort_entries(ents, e)))
        ELSE <<>>)
    \o (IF /\ ents[e].parent # 0
           /\ has_also_refs(ents, ents[e].parent)
           /\ ~running_in
           /\ render_also_references(ents, ents[e].parent) # <<>>
        THEN <<Part("also_row", ents[e].parent,
                    render_also_references(ents, ents[e].parent))>>
        ELSE <<>>)

\* TextIndex.entry_html
entry_html(ents, greatest, should_run_in, e) ==
    Rows(ents, greatest, should_run_in, e,
         run_in_children(ents, greatest, e, should_run_in),
         RunningIn(ents, greatest, should_run_in, e))

\* The entries of the subtree of e, on which entry_html calls
\* sort_cross_refs.
RECURSIVE Below(_, _)
Below(ents, e) ==
    {e} \cup UNION {Below(ents, c) : c \in Children(ents, e)}

NestedAC == Mark(NoToks, <<"A", ">", "C">>)                     \* {^A>C}
AlsoAC   == Mark(NoToks, <<"A", "|", "+", "C">>)                \* {^A|+C}

RenderMarks == {PlainA, SeeOnly, AlsoAC, NestedAB, NestedAC, NestedABC}

\* A call of entry_html on a top-level entry e, as index_html makes it
\* once create_index has returned; calls holds the call made, with the
\* rows returned.  The cross-references of the entries rendered are left
\* sorted.
CallEntryHtml(e, should_run_in) ==
    /\ pc = "done"
    /\ entries[e].parent = 0
    /\ calls' = <<[entry |-> e, should_run_in |-> should_run_in,
                   html |-> entry_html(entries, depth, should_run_in, e)]>>
    /\ entries' = [k \in 1..Len(entries) |->
                     IF k \in Below(entries, e)
                     THEN [entries[k] EXCEPT !.cross_references =
                               sort_cross_refs(@)]
                     ELSE entries[k]]
    /\ UNCHANGED <<next_id, depth, aliases, enabled, entry_number,
                   out, doc, ids, pc>>

NextRender ==
    \/ \E m \in RenderMarks : ScanMark(m)
    \/ Finish
    \/ /\ calls = <<>>
       /\ \E e \in 1..Len(entries), should_run_in \in BOOLEAN :
             CallEntryHtml(e, should_run_in)

SpecRender == Init /\ [][NextRender]_vars

----------------------------------------------------------------------------

----------------------------------------------------------------------------
(* Scanning the document again *)

\* The setters that clear the cached document
\* (`self._indexed_document = None`).
Setters ==
    {"see_label", "see_also_label", "index_id_prefix",
     "group_headings_enabled", "should_run_in", "sort_emphasis_first"}

RescanMarks == {PlainA, NestedAB, SeeOnly, AlsoAB, CloseA}

\* create_index, first call: the loop body for the next directive.
FirstScanMark(m) ==
    /\ calls = <<>>
    /\ ScanMark(m)

\* create_index, first call: the document has no further directive.
FirstFinish ==
    /\ calls = <<>>
    /\ Finish

\* A setter clears the cached document and indexed_document() is called:
\* create_index starts on the same document again, with entry_number 0,
\* no aliases and enabled True; self.entries, self.depth and the counter
\* of entry ids are what the first call left.  The first call returned, or
\* raised on the empty document, which leaves the object as __init__ made
\* it.  calls keeps the document, whether self.original_document is true,
\* and the entries the first call ended with.
Rescan(setter) ==
    /\ pc = "done" \/ (pc = "raised" /\ doc = <<>>)
    /\ calls = <<>>
    /\ calls' = <<[setter |-> setter, doc |-> doc,
                   original_document |-> (pc = "done"),
                   entries |-> entries]>>
    /\ aliases' = <<>>
    /\ enabled' = TRUE
    /\ entry_number' = 0
    /\ out' = <<>>
    /\ ids' = <<>>
    /\ doc' = <<>>
    /\ pc' = "scan"
    /\ UNCHANGED <<entries, next_id, depth>>

\* create_index, second call: the loop body for the next directive of the
\* document scanned before.
RescanMark ==
    /\ pc = "scan"
    /\ calls # <<>>
    /\ Len(doc) < Len(calls[1].doc)
    /\ Scanned(calls[1].doc[Len(doc) + 1],
               Directive(Tree, aliases, enabled, entry_number,
                         calls[1].doc[Len(doc) + 1]))

\* create_index, second call: the document, whose text is what it was,
\* has no further directive.
RescanFinish ==
    /\ pc = "scan"
    /\ calls # <<>>
    /\ Len(doc) = Len(calls[1].doc)
    /\ \E text \in Texts :
          /\ HasDocument(calls[1].doc, text) = calls[1].original_document
          /\ pc' = Finished(doc, text)
    /\ UNCHANGED <<entries, next_id, depth, aliases, enabled, entry_number,
                   out, doc, ids, calls>>

NextRescan ==
    \/ \E m \in RescanMarks : FirstScanMark(m)
    \/ FirstFinish
    \/ \E setter \in Setters : Rescan(setter)
    \/ RescanMark
    \/ RescanFinish

SpecRescan == Init /\ [][NextRescan]_vars

----------------------------------------------------------------------------
(* Properties *)

\* The anchor spans of the output document, in document order, and their ids.
Spans == SelectSeq(out, LAMBDA p : p.kind = "span")
SpanIds == {Spans[k].id : k \in 1..Len(Spans)}

RECURSIVE CountLocators(_)
CountLocators(ents) ==
    IF ents = <<>> THEN 0
    ELSE Len(Head(ents).references) + CountLocators(Tail(ents))

\* A step of the scan, and the directive it read.
IsStep == Len(doc') = Len(doc) + 1
Read == doc'[Len(doc')]

IsToggle(m) == m \in {Disable, Enable, TokDisable}

\* The step added a locator, whose start_id is the counter's new value.
LocatorAdded == CountLocators(entries') > CountLocators(entries)
NewLocatorNumbered ==
    \E e \in 1..Len(entries') :
        LET refs == entries'[e].references
            old == IF e <= Len(entries) THEN entries[e].references ELSE <<>>
        IN  /\ Len(refs) = Len(old) + 1
            /\ refs[Len(refs)].start_id = entry_number'
            /\ refs[Len(refs)].end_id = 0

\* C1: no two entries with the same parent (top-level entries included)
\* carry the same label, labels compared exactly and case-sensitively.
C1_UniqueLabels ==
    \A i, j \in 1..Len(entries) :
        (i # j /\ entries[i].parent = entries[j].parent)
            => entries[i].label # entries[j].label

\* C1 witness: "A" was looked up again after its creation (two locators),
\* "a" is a second top-level entry, and "A" has a child.
C1_Witness ==
    /\ pc = "done"
    /\ \E i, j, k \in 1..Len(entries) :
          /\ entries[i].label = <<"A">> /\ entries[i].parent = 0
          /\ Len(entries[i].references) >= 2
          /\ entries[j].label = <<"a">> /\ entries[j].parent = 0
          /\ entries[k].parent = i

\* C2: entry_at_path(create=True) followed immediately by
\* entry_at_path(create=False) with the same arguments returns the same
\* entry, creates nothing and reports already-existed; a creating call
\* reports already-existed exactly when an entry with the whole path was
\* in the tree before it.
C2_CreateThenFind ==
    \A k \in 1..Len(calls) :
        /\ calls[k].create =>
              /\ calls[k].entry # 0
              /\ calls[k].existed <=> calls[k].had
        /\ ( /\ k < Len(calls)
             /\ calls[k].create /\ ~calls[k + 1].create
             /\ calls[k + 1].label = calls[k].label
             /\ calls[k + 1].path_list = calls[k].path_list )
           => /\ calls[k + 1].entry = calls[k].entry
              /\ calls[k + 1].existed
              /\ calls[k + 1].size = calls[k].size

\* C2 witness: a creating call for A>B>x that found the ancestor A but not
\* the final entry, followed by the same call with create=False.
C2_Witness ==
    \E k \in 1..(Len(calls) - 1) :
        /\ k > 1
        /\ calls[k].create /\ ~calls[k + 1].create
        /\ Len(calls[k].path_list) = 2
        /\ calls[k + 1].label = calls[k].label
        /\ calls[k + 1].path_list = calls[k].path_list
        /\ ~calls[k].existed
        /\ calls[k].size < calls[k - 1].size + 3
        /\ calls[k + 1].existed

\* C3: once create_index has returned, every locator's start_id is the id
\* of an anchor span of the output document, and every end_id is greater
\* than its start_id and is the id of an anchor span too.
C3_LocatorsAnchored ==
    pc = "done" =>
        \A e \in 1..Len(entries) :
            \A i \in 1..Len(entries[e].references) :
                LET r == entries[e].references[i]
                IN  /\ r.start_id \in SpanIds
                    /\ r.end_id # 0 =>
                          (r.end_id > r.start_id /\ r.end_id \in SpanIds)

\* C3 witness: a scan that ended with a closed range and an open locator.
C3_Witness ==
    /\ pc = "done"
    /\ \E e \in 1..Len(entries) :
          \E i \in 1..Len(entries[e].references) :
              entries[e].references[i].end_id # 0
    /\ \E e \in 1..Len(entries) :
          \E i \in 1..Len(entries[e].references) :
              entries[e].references[i].end_id = 0

\* C4: the k-th anchor span of the output document has id k: no id is
\* skipped and none is used twice.
C4_ConsecutiveIds == \A k \in 1..Len(Spans) : Spans[k].id = k

\* C5 as claimed: the counter advances by one for a mark that adds a
\* locator, and neither an alias-only mark nor a see-only mark consumes
\* an id.
C5_Original ==
    [][IsStep =>
          /\ LocatorAdded => entry_number' = entry_number + 1
          /\ Read \in {AliasOnly, SeeOnly} => entry_number' = entry_number
      ]_vars

\* C5 amended: a mark that adds a locator advances the counter by one and
\* the locator carries the new value; an alias-only mark consumes no id;
\* a see-only mark met while enabled does consume an id, carried by its
\* anchor span, though it adds no locator.
C5_IdsConsumed ==
    [][IsStep =>
          /\ LocatorAdded =>
                (entry_number' = entry_number + 1 /\ NewLocatorNumbered)
          /\ Read = AliasOnly =>
                /\ entry_number' = entry_number
                /\ enabled => (out' = out /\ <<"x">> \in DOMAIN aliases')
          /\ (Read = SeeOnly /\ enabled) =>
                /\ entry_number' = entry_number + 1
                /\ ~LocatorAdded
                /\ out' = Append(out, Span(entry_number', SeeOnly))
      ]_vars

\* C5 witness: an alias-only mark took no id, the see-only mark after it
\* took id 1 and the plain mark after that took id 2 for its locator.
C5_Witness ==
    /\ pc = "done"
    /\ doc = <<AliasOnly, SeeOnly, PlainA>>
    /\ ids = <<0, 1, 2>>
    /\ entries[1].references = <<Locator(2, <<>>, FALSE)>>

\* The locator a range from anchor a to anchor b is stored as.
Range(a, b) == [Locator(a, <<>>, FALSE) EXCEPT !.end_id = b]

\* C6: a mark opening a range for a path, followed by a mark with
\* trailing `/` for the same path, closes the range; on the example given,
\* `{^A/}` followed by `{^A/}` leaves entry A with exactly one locator,
\* from id 1 to id 2.
C6_Original ==
    (pc = "done" /\ doc = <<CloseA, CloseA>>) =>
        \E e \in EntriesAt(entries, <<<<"A">>>>) :
            entries[e].references = <<Range(1, 2)>>

\* What a toggle mark may change: the enabled flag only.
ToggleFrame ==
    /\ entries' = entries /\ aliases' = aliases
    /\ entry_number' = entry_number /\ next_id' = next_id
    /\ depth' = depth /\ pc' = pc
    /\ enabled' = (Read = Enable)

\* C7: every mark whose body is exactly `+` or `-` is removed from the
\* output and only sets the enabled flag, whatever the enabled state when
\* it is met.
C7_Original == [][(IsStep /\ IsToggle(Read)) => (ToggleFrame /\ out' = out)]_vars

\* C8: a non-toggle mark met while processing is disabled changes nothing
\* in the index state (entries, locators, cross-references, sort keys,
\* aliases, id counter), and a plain mark met while processing is enabled
\* (also after a disable and the next enable) adds its locator.
C8_DisabledFrame ==
    [][(IsStep /\ ~IsToggle(Read)) =>
          IF ~enabled
          THEN /\ entries' = entries /\ aliases' = aliases
               /\ entry_number' = entry_number /\ next_id' = next_id
               /\ depth' = depth /\ enabled' = enabled
               /\ ids'[Len(ids')] = 0
          ELSE Read \in {PlainA, PlainLowA, NestedAB} =>
                  (LocatorAdded /\ NewLocatorNumbered)
      ]_vars

\* C8 witness: `{^-} {^A} {^ + } {^A}`: the first {^A} left the index
\* empty, the second one, after the enable, created entry A with id 1.
C8_Witness ==
    /\ doc = <<Disable, PlainA, Enable, PlainA>>
    /\ ids = <<0, 0, 0, 1>>
    /\ Len(entries) = 1
    /\ entries[1].references = <<Locator(1, <<>>, FALSE)>>

\* C9 as claimed: a non-toggle mark met while processing is disabled is
\* stripped from the output document.
C9_Original == [][(IsStep /\ ~IsToggle(Read) /\ ~enabled) => out' = out]_vars

\* C9 amended: a non-toggle mark met while processing is disabled stays in
\* the output document exactly as it was written.
C9_DisabledVerbatim ==
    [][(IsStep /\ ~IsToggle(Read) /\ ~enabled) =>
          out' = Append(out, Verbatim(Read))]_vars

\* C9 witness: `{^-} {^A|B}` ended with {^A|B} in the output.
C9_Witness ==
    /\ doc = <<Disable, SeeOnly>>
    /\ out = <<Verbatim(SeeOnly)>>
    /\ entries = <<>>

\* The closing marks of the repertoire and the path each one names.
ClosingMarks == {CloseA, TokCloseA, CloseBInA}
OwnPath(m) == IF m = CloseBInA THEN <<<<"B">>>> ELSE <<<<"A">>>>

\* C10: a closing mark, met while enabled, whose entry does not exist or
\* has no locator creates no entry, adds no locator and changes no
\* locator, and the scan goes on.
C10_ClosingIgnored ==
    [][( /\ IsStep /\ enabled /\ Read \in ClosingMarks
         /\ \A e \in EntriesAt(entries, OwnPath(Read)) :
               entries[e].references = <<>> )
       => /\ Len(entries') = Len(entries)
          /\ \A e \in 1..Len(entries) :
                entries'[e].references = entries[e].references
          /\ pc' = "scan"
      ]_vars

\* The cross-reference (ref_type, path) is in the list xs.
Stores(xs, ref_type, path) ==
    \E i \in 1..Len(xs) : xs[i].ref_type = ref_type /\ xs[i].path = path

\* C11: no entry stores two cross-references with the same kind and path;
\* a direct add_cross_reference call with a (kind, path) the entry already
\* stores leaves its list unchanged, and any other call, the same path
\* with a different kind included, appends the cross-reference.
C11_NoDuplicateXrefs ==
    /\ \A e \in 1..Len(entries) :
          \A i, j \in 1..Len(entries[e].cross_references) :
              i # j => entries[e].cross_references[i]
                          # entries[e].cross_references[j]
    /\ \A k \in 1..Len(calls) :
          LET c == calls[k]
          IN  IF Stores(c.before, c.ref_type, c.path)
              THEN c.after = c.before
              ELSE c.after = Append(c.before, [ref_type |-> c.ref_type,
                                               path |-> c.path])

\* C11 witness: entry A was given "see B" by three marks and stores it
\* once, next to "also B"; a call repeated a stored cross-reference and
\* another added the stored path under the other kind.
C11_Witness ==
    /\ doc = <<SeeOnly, SeeTwice, InboundBA>>
    /\ entries[1].label = <<"A">>
    /\ \E k, l \in 1..Len(calls) :
          /\ calls[k].entry = 1 /\ calls[l].entry = 1
          /\ Stores(calls[k].before, calls[k].ref_type, calls[k].path)
          /\ calls[l].path = <<<<"B">>>> /\ calls[l].ref_type = "also"
          /\ ~Stores(calls[l].before, "also", calls[l].path)
          /\ Stores(calls[l].before, "see", calls[l].path)
    /\ Stores(entries[1].cross_references, "see", <<<<"B">>>>)
    /\ Stores(entries[1].cross_references, "also", <<<<"B">>>>)
    /\ Len(entries[1].cross_references) = 2

\* The alias name of the documents, and a path written out in a mark:
\* its components joined by the path delimiter.
NameX == <<"x">>
RECURSIVE PathText(_)
PathText(path) ==
    IF path = <<>> THEN <<>>
    ELSE IF Len(path) = 1 THEN path[1]
    ELSE path[1] \o <<path_delimiter>> \o PathText(Tail(path))

\* The marks that reference #x, each with the mark that writes path out
\* in its place.
WrittenOut(path) ==
    { <<RefX, Mark(NoToks, PathText(path))>>,
      <<RefXChild, Mark(NoToks, PathText(path) \o <<">", "B">>)>>,
      <<SeeX, Mark(NoToks, <<"A", "|">> \o PathText(path))>>,
      <<InboundX, Mark(NoToks, <<"A", "|", "@">> \o PathText(path))>> }

\* What a directive leaves, but for the text of the mark itself.
Effect(d) ==
    [t |-> d.t, aliases |-> d.aliases, enabled |-> d.enabled,
     entry_number |-> d.entry_number, id |-> d.id, pc |-> d.pc,
     pieces |-> [i \in DOMAIN d.pieces |->
                    <<d.pieces[i].kind, d.pieces[i].id>>]]

\* C12: once the alias x is defined, a mark that references #x in its
\* label path or in a cross-reference target (inbound or not) has the
\* effect of the same mark with the alias's path written out: the same
\* entries found or created, the same locators and cross-references.
C12_AliasResolves ==
    (pc = "scan" /\ NameX \in DOMAIN aliases) =>
        \A p \in WrittenOut(aliases[NameX]) :
            Effect(Directive(Tree, aliases, enabled, entry_number, p[1]))
              = Effect(Directive(Tree, aliases, enabled, entry_number, p[2]))

\* C12 witness: after `{^a b##x}`, `{^#x}` created the entry "a b" with
\* locator 1 and `{^A|#x}` gave entry A a cross-reference to ["a b"].
C12_Witness ==
    /\ doc = <<DefX, RefX, SeeX>>
    /\ aliases[NameX] = << <<"a", " ", "b">> >>
    /\ Len(entries) = 2
    /\ entries[1].label = <<"a", " ", "b">>
    /\ entries[1].references = <<Locator(1, <<>>, FALSE)>>
    /\ entries[2].label = <<"A">>
    /\ entries[2].cross_references =
          <<[ref_type |-> "see", path |-> << <<"a", " ", "b">> >>]>>

\* The marks that define the alias x and the path each one gives it.
DefinitionMarks == {DefX, NestedDefX, RedefX, LabelDefX, TokDefX}
DefinedPath(m) ==
    IF m = DefX THEN << <<"a", " ", "b">> >>
    ELSE IF m = NestedDefX THEN << <<"A">>, <<"B">> >>
    ELSE IF m = TokDefX THEN << <<"v">> >>
    ELSE << <<"B">> >>

\* C13: a definition mark of any form, read while enabled when the name
\* is already defined with a different path, does not abort the scan and
\* leaves the alias table mapping the name to the new path.
C13_RedefinitionWins ==
    [][( /\ IsStep /\ enabled /\ Read \in DefinitionMarks
         /\ NameX \in DOMAIN aliases
         /\ aliases[NameX] # DefinedPath(Read) )
       => /\ pc' = "scan"
          /\ aliases'[NameX] = DefinedPath(Read)
      ]_vars

\* What each mark of the nested documents asks for: the path of its
\* entry, its sort key, its cross-references and whether it adds a locator.
MarkPath(m) ==
    IF m = PlainA THEN << <<"A">> >>
    ELSE IF m = PlainB THEN << <<"B">> >>
    ELSE IF m = NestedABC THEN << <<"A">>, <<"B">>, <<"C">> >>
    ELSE << <<"A">>, <<"B">> >>
MarkSortKey(m) == IF m = NestedSorted THEN <<"c">> ELSE <<>>
MarkXrefs(m) ==
    IF m = NestedAlso THEN <<[ref_type |-> "also", path |-> << <<"C">> >>]>>
    ELSE IF m = NestedSee
    THEN <<[ref_type |-> "see", path |-> << <<"C">> >>]>>
    ELSE <<>>
MarkLocators(m, n) ==
    IF m = NestedSee THEN <<>> ELSE <<Locator(n, <<>>, FALSE)>>

\* The prefixes of path that name no entry of ents.
Missing(ents, path) ==
    {k \in 1..Len(path) : EntriesAt(ents, Upto(path, k)) = {}}

\* C14: a mark with a path creates exactly one entry for each missing
\* prefix of the path; every ancestor it creates has no locator, no
\* cross-reference and no sort key, the final entry it creates has the
\* mark's locator, cross-references and sort key, and no entry other than
\* the final one is changed.
C14_AncestorsBlank ==
    [][(IsStep /\ enabled) =>
        LET path == MarkPath(Read)
            n == Len(path)
        IN  /\ Len(entries') = Len(entries) + Cardinality(Missing(entries, path))
            /\ \A k \in Missing(entries, path) :
                  \E e \in EntriesAt(entries', Upto(path, k)) :
                      /\ e > Len(entries)
                      /\ entries'[e].references =
                            IF k < n THEN <<>>
                            ELSE MarkLocators(Read, entry_number')
                      /\ entries'[e].cross_references =
                            IF k < n THEN <<>> ELSE MarkXrefs(Read)
                      /\ entries'[e].sort_key =
                            IF k < n THEN <<>> ELSE MarkSortKey(Read)
            /\ \A e \in 1..Len(entries) :
                  e \notin EntriesAt(entries, path)
                      => entries'[e] = entries[e]
      ]_vars

\* C14 witness: `{^A>B~c}` on the empty index left A with nothing and A>B
\* with locator 1 and sort key c.
C14_Witness ==
    /\ doc = <<NestedSorted>>
    /\ entries =
          << TextIndexEntry(<<"A">>, 0, 0),
             [TextIndexEntry(<<"B">>, 1, 1) EXCEPT
                 !.references = <<Locator(1, <<>>, FALSE)>>,
                 !.sort_key = <<"c">>] >>

\* The visible text in front of a mark: its tokens, in order, brackets
\* taken off.
RECURSIVE TokText(_)
TokText(toks) ==
    IF toks = <<>> THEN <<>> ELSE Head(toks).txt \o TokText(Tail(toks))

\* The visible text of the marks of a document, and the text that is left
\* of the pieces of the output document once the tags are stripped: of an
\* anchor span its contents, of a mark left as written its tokens.
RECURSIVE DocText(_)
DocText(d) ==
    IF d = <<>> THEN <<>> ELSE TokText(Head(d).toks) \o DocText(Tail(d))
RECURSIVE OutText(_)
OutText(o) ==
    IF o = <<>> THEN <<>>
    ELSE (IF Head(o).kind = "span" THEN SpanContents(Head(o).mark)
          ELSE TokText(Head(o).mark.toks))
         \o OutText(Tail(o))

\* C15: the scan of every document returns, and the output document,
\* tags stripped, holds the visible text in front of every mark once and
\* in order, emphasis markers aside.
C15_RoundTrip ==
    /\ pc # "raised"
    /\ pc = "done" => RemoveEmphasis(OutText(out)) = RemoveEmphasis(DocText(doc))

\* If the call made was elide_end(start, end), it returned result.
Elided(start, end, result) ==
    \A k \in 1..Len(calls) :
        (calls[k].start = start /\ calls[k].end = end)
            => calls[k].result = result

\* C16 as stated: 123-125 displays 25, 112-113 displays 13, 9-11
\* displays 11.
C16_Original ==
    /\ Elided(123, 125, 25)
    /\ Elided(112, 113, 13)
    /\ Elided(9, 11, 11)

\* C16 amended: 123-125 displays 5 (every matching leading digit is
\* trimmed), 112-113 displays 13 (the 1 of a teen is kept), 9-11 displays
\* 11 (unequal digit counts, nothing trimmed).
C16_ElidedEnds ==
    /\ Elided(123, 125, 5)
    /\ Elided(112, 113, 13)
    /\ Elided(9, 11, 11)

\* C16 witness: elide_end(123, 125) was called and returned 5.
C16_Witness == calls = <<[start |-> 123, end |-> 125, result |-> 5]>>

\* The entries of the tree in depth-first pre-order, children in the
\* order of their creation, from the entries of todo on.
RECURSIVE PreOrder(_)
PreOrder(todo) ==
    IF todo = <<>> THEN <<>>
    ELSE <<Head(todo)>>
         \o PreOrder(SortedSeq(Children(entries, Head(todo))) \o Tail(todo))

\* The first entry in pre-order whose label starts with label, 0 if none.
FirstMatch(label) ==
    LET order == PreOrder(SortedSeq(Children(entries, 0)))
        hits == {k \in 1..Len(order) : IsPrefix(label, entries[order[k]].label)}
    IN  IF hits = {} THEN 0 ELSE order[Minimum(hits)]

Quoted(s) == <<"\"">> \o s \o <<"\"">>

\* What the call c put in place of its wildcard, given what it puts there
\* when no entry matches.
Resolved(c, fallback) ==
    LET e == FirstMatch(c.label)
    IN  c.result =
          c.front
          \o (IF e = 0 THEN fallback
              ELSE IF c.minus \/ c.force_label_only
              THEN Quoted(entries[e].label)
              ELSE JoinQuoted(PathList(entries, e)))
          \o c.back

\* C17 as stated: with no matching entry the text returned holds a
\* literal `*` in place of the wildcard.
C17_Original == \A k \in 1..Len(calls) : Resolved(calls[k], <<"*">>)

\* C17 amended: `*^` becomes the quoted path of the first entry, in
\* depth-first pre-order, whose label starts with the visible label
\* (compared exactly), `*^-` that entry's quoted label; with no matching
\* entry the wildcard falls back to the plain `*` wildcard, so the text
\* returned holds the visible label in its place.
C17_PrefixWildcards ==
    \A k \in 1..Len(calls) : Resolved(calls[k], calls[k].label)

\* C17 witness: after `{^B} {^A} {^B>AB}` the label A resolved `*^` to the
\* path of AB below B, which precedes A in pre-order although it was
\* created later.
C17_Witness ==
    /\ doc = <<PlainB, PlainA, DeepAB>>
    /\ calls = <<[label |-> <<"A">>, front |-> <<>>, minus |-> FALSE,
                  back |-> <<>>, force_label_only |-> FALSE,
                  result |-> <<"\"", "B", "\"", ">", "\"", "A", "B", "\"">>]>>

\* The inbound marks, all of entry B: the path each one references and
\* the kind of its cross-reference.
InboundOnes == {InboundBA, InAlsoBA, DeepInbound, DeepInAlso}
InboundPath(m) ==
    IF m \in {DeepInbound, DeepInAlso} THEN << <<"A">>, <<"C">> >>
    ELSE << <<"A">> >>
InboundKind(m) == IF m \in {InAlsoBA, DeepInAlso} THEN "also" ELSE "see"

\* C18: an inbound mark read while enabled leaves the entry at the
\* referenced path, created when absent, with a cross-reference of the
\* mark's kind to the mark's own path; the mark's own entry receives its
\* locator and the scan goes on.
C18_InboundAttached ==
    [][(IsStep /\ enabled /\ Read \in InboundOnes) =>
         /\ pc' = "scan"
         /\ \E e \in EntriesAt(entries', InboundPath(Read)) :
               Stores(entries'[e].cross_references, InboundKind(Read),
                      << <<"B">> >>)
         /\ \E e \in EntriesAt(entries', << <<"B">> >>) :
               /\ entries'[e].references # <<>>
               /\ entries'[e].references[Len(entries'[e].references)]
                     = Locator(entry_number', <<>>, FALSE)
      ]_vars

----------------------------------------------------------------------------
(* C19 *)

\* Two ranges intersect: they share a position of the document.
Intersect(a, b) == a[1] < b[2] /\ b[1] < a[2]

\* A match of the c-th expression is free: it intersects no excluded range
\* and no match of an earlier expression that received a mark.
Free(call, r, c) ==
    /\ \A i \in 1..Len(call.excluded_ranges) :
          ~Intersect(r, call.excluded_ranges[i])
    /\ \A i \in 1..Len(call.term_ranges) :
          call.term_ranges[i][3] < c => ~Intersect(r, call.term_ranges[i])

\* C19: the spans load_concordance_file inserts marks at are pairwise
\* non-overlapping, none of them intersects an excluded range, also not
\* one lying strictly inside the match, and where expressions compete for
\* a span the earliest one wins: a free match of an expression receives
\* its mark.
C19_MarksDisjoint ==
    \A n \in 1..Len(calls) :
        /\ \A i, j \in 1..Len(calls[n].term_ranges) :
              i # j => ~Intersect(calls[n].term_ranges[i],
                                  calls[n].term_ranges[j])
        /\ \A i \in 1..Len(calls[n].term_ranges),
              j \in 1..Len(calls[n].excluded_ranges) :
              ~Intersect(calls[n].term_ranges[i],
                         calls[n].excluded_ranges[j])
        /\ \A c \in 1..Len(calls[n].concordance) :
              \A k \in 1..Len(calls[n].concordance[c]) :
                  Free(calls[n], calls[n].concordance[c][k], c)
                  => \E i \in 1..Len(calls[n].term_ranges) :
                        calls[n].term_ranges[i]
                        = <<calls[n].concordance[c][k][1],
                            calls[n].concordance[c][k][2], c>>

----------------------------------------------------------------------------
(* C20 *)

\* C20: the size-ratio check never blocks output: every call of index_html
\* completes and returns the rendered index after a message, also for a
\* document whose tag-stripped text holds no word.
C20_RatioNeverBlocks ==
    \A n \in 1..Len(calls) :
        calls[n].outcome \in {"short", "long", "good"}

----------------------------------------------------------------------------
(* C21 *)

\* C21: entry ids are unique and increase in creation order, and objects
\* never interfere: an object scanning the document an earlier object
\* scanned builds the same entries, ids included.
C21_InstancesIndependent ==
    /\ \A i, j \in 1..Len(entries) :
          i < j => entries[i].entry_id < entries[j].entry_id
    /\ \A n \in 1..Len(calls) :
          (pc = "done" /\ calls[n].doc = doc) => calls[n].entries = entries

----------------------------------------------------------------------------
(* C22 *)

\* The patterns of the rules a configuration holds.
Patterns(rules) == [i \in 1..Len(rules) |-> rules[i].pattern]

\* The rows of a TSV file that are rules: not empty, and their first cell
\* neither blank nor a comment.
RuleRows(rows) ==
    SelectSeq(rows, LAMBDA row :
        /\ row # <<>>
        /\ Strip(row[1]) # <<>>
        /\ ~StartsWith(Strip(row[1]), "#"))

\* C22: load_project_config chooses its source by fixed priority.  With a
\* TOML file the configuration is the TOML file's, whatever the TSV file
\* holds; else with a TSV file the rules are the TSV file's and the
\* rendering options the defaults; else the configuration is the default
\* one, with no rule.
C22_ConfigPriority ==
    \A n \in 1..Len(calls) :
        IF calls[n].toml.is_file
        THEN /\ calls[n].result.rendering
                = IndexConfig(calls[n].toml.data.rendering)
             /\ Len(calls[n].result.concordance_rules)
                = Len(calls[n].toml.data.rules)
             /\ \A i \in 1..Len(calls[n].toml.data.rules) :
                   calls[n].result.concordance_rules[i].pattern
                   = (IF calls[n].toml.data.rules[i].pattern = None
                      THEN <<>> ELSE calls[n].toml.data.rules[i].pattern[1])
        ELSE IF calls[n].tsv.is_file
        THEN /\ calls[n].result.rendering = IndexConfigDefaults
             /\ Patterns(calls[n].result.concordance_rules)
                = [i \in 1..Len(RuleRows(calls[n].tsv.rows)) |->
                      Strip(RuleRows(calls[n].tsv.rows)[i][1])]
        ELSE /\ calls[n].result.rendering = IndexConfigDefaults
             /\ calls[n].result.concordance_rules = <<>>

\* A call made with both files, which hold different rules and a TOML
\* rendering option, has returned.
C22_Witness ==
    /\ calls # <<>>
    /\ calls[1].toml.is_file /\ calls[1].tsv.is_file
    /\ calls[1].toml.data.rendering = [group_headings |-> TRUE]
    /\ Len(calls[1].toml.data.rules) = 1
    /\ Len(RuleRows(calls[1].tsv.rows)) = 2
    /\ calls[1].result.rendering.group_headings

----------------------------------------------------------------------------
(* C23 *)

\* The entry at path A has a most recent locator, and it is a closed
\* range: a closing mark for A met now is a second one.
ClosedA(e) ==
    /\ e \in EntriesAt(entries, <<<<"A">>>>)
    /\ entries[e].references # <<>>
    /\ entries[e].references[Len(entries[e].references)].end_id # 0

\* C23: a second closing mark for a path with no opening mark in between
\* is not fatal: the scan continues, the entry has as many locators as
\* before, and the end_id of its most recent locator becomes the id of the
\* later closing mark.
C23_SecondClosing ==
    [][\A e \in 1..Len(entries) :
          (IsStep /\ enabled /\ Read \in {CloseA, TokCloseA} /\ ClosedA(e))
          => /\ pc' = "scan"
             /\ ids'[Len(ids')] = entry_number + 1
             /\ Len(entries') = Len(entries)
             /\ Len(entries'[e].references) = Len(entries[e].references)
             /\ entries'[e].references[Len(entries'[e].references)].end_id
                = ids'[Len(ids')]
      ]_vars

----------------------------------------------------------------------------
(* C24 *)

\* The flags and the path text the scan derives from mark m.
Flags(m) == Prologue(m, TRUE)

\* The step read a mark whose flags are closing or emphasis, and what it
\* did with the entry tree shows them: a mark with emphasis leaves an
\* emphasised locator on the entry named by its body less one character,
\* a closing mark creates no entry and no locator.
FlagsShown ==
    /\ Flags(Read).emphasis =>
          \E e \in 1..Len(entries') :
              /\ entries'[e].label = Flags(Read).params
              /\ entries'[e].references # <<>>
              /\ entries'[e].references[Len(entries'[e].references)]
                     .locator_emphasis
              /\ entries'[e].references[Len(entries'[e].references)]
                     .start_id = entry_number'
    /\ Flags(Read).closing =>
          (Len(entries') = Len(entries) /\ ~LocatorAdded)

\* C24: for every mark at most one of the flags closing and emphasis is
\* set: `/` is tested first, `!` only when the body does not end with
\* `/`, and exactly one trailing marker character is taken off the body
\* before the path is parsed.
C24_OneTrailingMarker ==
    [][IsStep =>
          /\ ~(Flags(Read).closing /\ Flags(Read).emphasis)
          /\ Flags(Read).closing <=> EndsWith(Strip(Read.body), "/")
          /\ Flags(Read).emphasis <=>
                (~EndsWith(Strip(Read.body), "/")
                 /\ EndsWith(Strip(Read.body), "!"))
          /\ Flags(Read).params =
                (IF Flags(Read).closing \/ Flags(Read).emphasis
                 THEN Upto(Strip(Read.body), Len(Strip(Read.body)) - 1)
                 ELSE Strip(Read.body))
          /\ FlagsShown
      ]_vars

\* C24 witness: `{^A/!}` left an emphasised locator on an entry labelled
\* `A/`; `{^A!!}` left one on an entry labelled `A!`, which the closing
\* mark `{^A!/}` then made a range.
C24_Witness ==
    /\ pc = "done"
    /\ doc = <<CloseBangA, BangBangA, BangCloseA>>
    /\ Len(entries) = 2
    /\ entries[1].label = <<"A", "/">>
    /\ entries[1].references[1].locator_emphasis
    /\ entries[2].label = <<"A", "!">>
    /\ entries[2].references = <<[Locator(2, <<>>, TRUE) EXCEPT !.end_id = 3]>>

----------------------------------------------------------------------------
(* C25 *)

\* The stack and the level of the last listed heading before heading k.
StackBefore(k) == IF k = 1 THEN <<>> ELSE calls[k - 1].section_stack
LevelBefore(k) ==
    IF k = 1 THEN calls[1].head_level ELSE calls[k - 1].prev_heading_level

\* C25: for every sequence of heading levels the section number of a
\* heading is the dotted join of a counter stack that is never empty when
\* the number is formed, also when the heading is shallower than the first
\* heading of the document: a heading of the same level increments the
\* top, a deeper one pushes, a shallower one pops and then increments the
\* top, and a no-toc or unlisted heading leaves the stack unchanged.
C25_SectionStack ==
    \A k \in 1..Len(calls) :
        /\ ~calls[k].raised
        /\ calls[k].section_stack # <<>>
        /\ calls[k].section_number = DottedJoin(calls[k].section_stack)
        /\ (k > 1 /\ ~calls[k].increment_section) =>
              calls[k].section_stack = StackBefore(k)
        /\ (k > 1 /\ calls[k].increment_section) =>
              /\ Len(calls[k].section_stack)
                 = Len(StackBefore(k)) + calls[k].head_level - LevelBefore(k)
              /\ calls[k].head_level <= LevelBefore(k) =>
                    calls[k].section_stack[Len(calls[k].section_stack)]
                    = StackBefore(k)[Len(calls[k].section_stack)] + 1
              /\ calls[k].head_level > LevelBefore(k) =>
                    calls[k].section_stack[Len(calls[k].section_stack)] = 1

----------------------------------------------------------------------------
(* C26 *)

\* The greatest depth of an entry of the tree.
GreatestDepth ==
    CHOOSE d \in 0..Len(entries) :
        /\ \A e \in 1..Len(entries) : EntryDepth(entries, e) <= d
        /\ \E e \in 1..Len(entries) : EntryDepth(entries, e) = d

\* C26: with run-in enabled an entry's children are rendered run-in
\* exactly when the entry's depth d satisfies d > 0 and d is the greatest
\* depth of the tree less one, so that only entries at the greatest depth,
\* that depth being at least 2, are run-in and the children of entries at
\* depth 0 are always indented; with run-in disabled none is run-in.
C26_RunInDepth ==
    \A n \in 1..Len(calls) :
        /\ calls[n].result <=>
              /\ calls[n].should_run_in
              /\ EntryDepth(entries, calls[n].entry) > 0
              /\ EntryDepth(entries, calls[n].entry) = GreatestDepth - 1
        /\ calls[n].result =>
              (GreatestDepth >= 2 /\ EntryDepth(entries, calls[n].entry) >= 1)

\* C26 witness: in a tree of greatest depth 3 the entry at depth 2 was
\* found to run its children in.
C26_Witness ==
    /\ calls # <<>>
    /\ GreatestDepth = 3
    /\ EntryDepth(entries, calls[1].entry) = 2
    /\ calls[1].result

----------------------------------------------------------------------------
(* C27 *)

\* The kinds of the parts of the references an entry's own row holds, in
\* the order they are rendered.
PartKinds(row) == [k \in 1..Len(row.items) |-> row.items[k].kind]

\* Entry e has a cross-reference of the given type.
HasXref(e, ref_type) ==
    \E k \in 1..Len(entries[e].cross_references) :
        entries[e].cross_references[k].ref_type = ref_type

\* The parts the references of entry e are to hold, in order.
PartsDue(e) ==
    (IF HasXref(e, "see") THEN <<"see">> ELSE <<>>)
    \o (IF entries[e].references # <<>> THEN <<"locators">> ELSE <<>>)
    \o (IF HasXref(e, "also") THEN <<"also">> ELSE <<>>)

\* C27: for an entry without children the rendered references hold its
\* 'see' cross-references, then its locators, then its 'see also'
\* cross-references, each part that is not empty being present.
C27_PartsInOrder ==
    \A n \in 1..Len(calls) :
        Children(entries, calls[n].entry) = {} =>
            PartKinds(calls[n].html[1]) = PartsDue(calls[n].entry)

----------------------------------------------------------------------------
(* C28 *)

\* The positions in the rows of a rendering at which the 'see also'
\* cross-references of entry e are rendered as a row of their own.
AlsoRowsOf(html, e) ==
    {k \in 1..Len(html) : html[k].kind = "also_row" /\ html[k].entry = e}

\* C28: an entry with indented children and a 'see also' cross-reference
\* has its 'see also' cross-references rendered exactly once, as the one
\* row that follows the rows of its last child, whatever the number of
\* its children.
C28_AlsoRowOnce ==
    \A n \in 1..Len(calls) :
        (/\ Children(entries, calls[n].entry) # {}
         /\ ~run_in_children(entries, depth, calls[n].entry,
                             calls[n].should_run_in)
         /\ HasXref(calls[n].entry, "also")) =>
            AlsoRowsOf(calls[n].html, calls[n].entry)
                = {Len(calls[n].html)}

----------------------------------------------------------------------------
(* C29 *)

\* The length of the longest leading run of digits two digit strings
\* share.
SharedRun(start_str, end_str) ==
    CHOOSE j \in 0..Len(end_str) :
        /\ j <= Len(start_str)
        /\ \A i \in 1..j : start_str[i] = end_str[i]
        /\ (j < Len(end_str) /\ j < Len(start_str))
               => start_str[j + 1] # end_str[j + 1]

\* The number of leading digits of end_str that are not displayed: the
\* shared run, one less when only the last digit differs and the
\* second-to-last digit of end_str is 1.
Trimmed(start_str, end_str) ==
    IF /\ SharedRun(start_str, end_str) = Len(end_str) - 1
       /\ end_str[Len(end_str) - 1] = 1
    THEN SharedRun(start_str, end_str) - 1
    ELSE SharedRun(start_str, end_str)

\* The call c trimmed end as described: the shared run ends inside the
\* digit strings, the result is made of the digits of end left, and put
\* in place of as many last digits of start it gives end.
TrimmedAsShared(c, start_str, end_str) ==
    /\ SharedRun(start_str, end_str) < Len(end_str)
    /\ Digits(c.result) = From(end_str, Trimmed(start_str, end_str))
    /\ ToInt(Upto(start_str, Len(start_str) - Len(Digits(c.result)))
             \o Digits(c.result)) = c.end

\* The outcome of the call c for the digit strings of its arguments.
ElidedAsShared(c, start_str, end_str) ==
    /\ (Len(start_str) = Len(end_str) /\ Len(start_str) >= 2
        /\ c.start < c.end) => TrimmedAsShared(c, start_str, end_str)
    /\ (Len(start_str) # Len(end_str) \/ c.start = c.end
        \/ Len(start_str) = 1) => c.result = c.end

\* C29: for start < end with the same number of digits, at least 2,
\* elide_end returns end without its longest leading digit run shared
\* with start, one more digit being kept when only the last digit differs
\* and the second-to-last digit of end is 1; the run ends inside the digit
\* strings, and the result put in place of as many last digits of start
\* gives end.  For unequal digit counts, equal values or one-digit values
\* it returns end unchanged.
C29_ElideEnd ==
    \A k \in 1..Len(calls) :
        ElidedAsShared(calls[k], Digits(calls[k].start), Digits(calls[k].end))

\* C29 witness: elide_end(114, 117) was called and returned 17, the 1 of
\* the teen kept after the shared run 11.
C29_Witness ==
    /\ calls = <<[start |-> 114, end |-> 117, result |-> 17]>>
    /\ SharedRun(Digits(114), Digits(117)) = 2
    /\ Trimmed(Digits(114), Digits(117)) = 1

----------------------------------------------------------------------------
(* C30 *)

\* C30: once a setter has cleared the cached document and the document
\* has been scanned again, the entries are those the first scan ended
\* with, each holding the same locators and cross-references as before.
C30_RescanIdempotent ==
    (pc = "done" /\ calls # <<>>) => entries = calls[1].entries

====
